---- MODULE Spec2Model ----
(***************************************************************************)
(* GoSnap: short-code issuance and resolution.                             *)
(*   - shortid.Generator (base-62 Encode / Decode)                         *)
(*   - validator (NormalizeURL, IsValidURL, IsValidShortCode)              *)
(*   - service.ShortenerService (CreateShortURL, GetLongURL, GetURLStats,  *)
(*     incrementClicksAsync) over the urls table and the Redis cache       *)
(*                                                                         *)
(* A Go string is modelled as the sequence of its characters; a URL as the *)
(* sequence of its lexical pieces (scheme prefix, host, path, blanks).     *)
(***************************************************************************)
EXTENDS Integers, Sequences, FiniteSets, TLC

(***************************************************************************)
(* Bounds of the model.                                                    *)
(***************************************************************************)
\* Encode / Decode are exercised on 0..MaxNumber and on BigNumbers.
MaxNumber == 4000
\* Longest text, in characters, among all texts over Chars given to
\* IsValidShortCode and Decode.
MaxTextLen == 2
\* Longest URL text, in pieces, given to IsValidURL and NormalizeURL.
MaxPieces == 3
\* Identifiers the sequence issues in one run.
MaxIssued == 3
\* Capacity of the clickWorkers channel: make(chan struct{}, 100) in
\* NewShortenerService, scaled down so that saturation is reached.
ClickWorkersCap == 2
\* GetLongURL calls that find their long URL in one run, all codes together.
MaxResolved == 3
\* The same count in the runs with two goroutines.
ConcResolved == 1

(***************************************************************************)
(* shortid/generator.go                                                    *)
(***************************************************************************)
base62Chars ==
    << "0","1","2","3","4","5","6","7","8","9",
       "A","B","C","D","E","F","G","H","I","J","K","L","M",
       "N","O","P","Q","R","S","T","U","V","W","X","Y","Z",
       "a","b","c","d","e","f","g","h","i","j","k","l","m",
       "n","o","p","q","r","s","t","u","v","w","x","y","z" >>

\* NewGenerator: base = len(base62Chars)
base == Len(base62Chars)

\* The value an operation has when the Go runtime panics inside it
\* (index out of range); no string of characters equals it.
Panic == << "panic: runtime error: index out of range" >>

\* The digits of number, least significant first (the loop at lines 31-35):
\* results.WriteByte(base62Chars[number % base]); number = number / base
RECURSIVE WriteDigits(_)
WriteDigits(number) ==
    IF number > 0
    THEN << base62Chars[(number % base) + 1] >> \o WriteDigits(number \div base)
    ELSE << >>

\* The reversal loop at lines 39-42, with Go's 0-based i and j:
\*   for i, j := 0, len(runes)-1; i < j; i, j = i+1, j+1 { swap runes[i], runes[j] }
\* An index j >= len(runes) panics.
RECURSIVE ReverseLoop(_, _, _)
ReverseLoop(runes, i, j) ==
    IF i < j
    THEN IF j >= Len(runes)
         THEN Panic
         ELSE ReverseLoop([runes EXCEPT ![i + 1] = runes[j + 1],
                                        ![j + 1] = runes[i + 1]], i + 1, j + 1)
    ELSE runes

Encode(number) ==
    IF number = 0
    THEN << base62Chars[1] >>
    ELSE LET encoded == WriteDigits(number)
         IN  ReverseLoop(encoded, 0, Len(encoded) - 1)

\* strings.IndexRune(base62Chars, char): 0-based index, -1 when absent
IndexRune(char) ==
    IF \E k \in 1..Len(base62Chars) : base62Chars[k] = char
    THEN (CHOOSE k \in 1..Len(base62Chars) : base62Chars[k] = char) - 1
    ELSE -1

\* int64(math.Pow(float64(base), float64(power))); exact for power <= 10
RECURSIVE Pow(_, _)
Pow(b, power) == IF power = 0 THEN 1 ELSE b * Pow(b, power - 1)

\* The loop of Decode that steps over a character it does not know.
RECURSIVE DecodeFromSkip(_, _, _)
DecodeFromSkip(encoded, i, number) ==
    IF i >= Len(encoded)
    THEN number
    ELSE LET index == IndexRune(encoded[i + 1])
         IN  IF index = -1
             THEN DecodeFromSkip(encoded, i + 1, number)
             ELSE DecodeFromSkip(encoded, i + 1,
                                 number + index * Pow(base, Len(encoded) - i - 1))

\* The loop of Decode from position i (0-based) with the sum so far.
RECURSIVE DecodeFrom(_, _, _)
DecodeFrom(encoded, i, number) ==
    IF i >= Len(encoded)
    THEN number
    ELSE LET index == IndexRune(encoded[i + 1])
         IN  IF index = -1
             THEN -1
             ELSE DecodeFrom(encoded, i + 1,
                             number + index * Pow(base, Len(encoded) - i - 1))

Decode(encoded) == DecodeFrom(encoded, 0, 0)

(***************************************************************************)
(* pkg/validator                                                           *)
(***************************************************************************)
MinShortCodeLength == 1
MaxShortCodeLength == 10

\* The regular expression without its anchors: [0-9A-Za-z]+
MatchStringUnanchored(shortCode) ==
    \E k \in 1..Len(shortCode) : IndexRune(shortCode[k]) # -1

\* validShortCodeRegex = ^[0-9A-Za-z]+$
MatchString(shortCode) ==
    /\ Len(shortCode) >= 1
    /\ \A k \in 1..Len(shortCode) : IndexRune(shortCode[k]) # -1

IsValidShortCode(shortCode) ==
    IF shortCode = << >>
    THEN FALSE
    ELSE IF Len(shortCode) < MinShortCodeLength \/ Len(shortCode) > MaxShortCodeLength
         THEN FALSE
         ELSE MatchString(shortCode)

\* Pieces a URL text is made of.  Blank is white space; the other pieces
\* hold no white space.
Blank == " "

\* strings.TrimSpace
RECURSIVE TrimLeft(_)
TrimLeft(s) == IF s # << >> /\ Head(s) = Blank THEN TrimLeft(Tail(s)) ELSE s
RECURSIVE TrimRight(_)
TrimRight(s) ==
    IF s # << >> /\ s[Len(s)] = Blank THEN TrimRight(SubSeq(s, 1, Len(s) - 1)) ELSE s
TrimSpace(s) == TrimRight(TrimLeft(s))

\* strings.HasPrefix(rawURL, prefix) for a scheme prefix
HasPrefix(rawURL, prefix) == rawURL # << >> /\ Head(rawURL) = prefix

\* NormalizeURL that looks for the scheme before it trims.
NormalizeURLPrefixFirst(rawURL) ==
    IF ~HasPrefix(rawURL, "http://") /\ ~HasPrefix(rawURL, "https://")
    THEN << "https://" >> \o TrimSpace(rawURL)
    ELSE TrimSpace(rawURL)

NormalizeURL(rawURL) ==
    LET trimmed == TrimSpace(rawURL)
    IN  IF ~HasPrefix(trimmed, "http://") /\ ~HasPrefix(trimmed, "https://")
        THEN << "https://" >> \o trimmed
        ELSE trimmed

\* What a piece gives to the authority of the URL: its text up to its first
\* "/", and whether it holds a "/" (which ends the authority).
HostPart(piece) ==
    CASE piece = "ftp://"   -> "ftp:"
      [] piece = "http://"  -> "http:"
      [] piece = "https://" -> "https:"
      [] piece = "/path"    -> ""
      [] OTHER              -> piece
HasSlash(piece) == piece \in { "ftp://", "http://", "https://", "/path" }

\* Parts of a host that hold a ":"; what follows the ":" inside them is
\* empty or made of digits.
HasColon(part) == part \in { "ftp:", "http:", "https:", "localhost:8080" }

\* parseHost: the text after the last ":" of the host must be a port (digits
\* only); no part that can follow a ":" is made of digits.
InvalidPort(host) ==
    \E k \in 1..Len(host) :
        /\ HasColon(host[k])
        /\ k < Len(host)
        /\ \A j \in (k + 1)..Len(host) : ~HasColon(host[j])

\* url.Parse of scheme://rest: the host is rest up to its first "/"; a blank
\* in the host or an invalid port is a parse error.
RECURSIVE Authority(_)
Authority(rest) ==
    IF rest = << >>
    THEN << >>
    ELSE IF HasSlash(Head(rest))
         THEN IF HostPart(Head(rest)) = "" THEN << >> ELSE << HostPart(Head(rest)) >>
         ELSE << Head(rest) >> \o Authority(Tail(rest))

Parse(rawURL) ==
    LET host == Authority(Tail(rawURL))
    IN  IF (\E k \in 1..Len(host) : host[k] = Blank) \/ InvalidPort(host)
        THEN [err |-> TRUE, Host |-> << >>]
        ELSE [err |-> FALSE, Host |-> host]

\* IsValidURL without the check of the host.
IsValidURLNoHost(rawURL) ==
    IF rawURL = << >>
    THEN FALSE
    ELSE IF ~HasPrefix(rawURL, "http://") /\ ~HasPrefix(rawURL, "https://")
         THEN FALSE
         ELSE ~Parse(rawURL).err

IsValidURL(rawURL) ==
    IF rawURL = << >>
    THEN FALSE
    ELSE IF ~HasPrefix(rawURL, "http://") /\ ~HasPrefix(rawURL, "https://")
         THEN FALSE
         ELSE LET finalURL == Parse(rawURL)
              IN  IF finalURL.err
                  THEN FALSE
                  ELSE finalURL.Host # << >>

(***************************************************************************)
(* Inputs and collaborators of the service.                                *)
(***************************************************************************)
\* Identifiers the identifier source may hand out (GetNextID); the service
\* does not assume they are fresh.  62 is the first two-digit identifier.
IDs == { 1, 2, 62 }

\* Raw long URLs given to CreateShortURL: two valid ones, one with an empty
\* host, one with white space inside ("not a url").
RawURLs == { << "https://", "a.com" >>,
             << Blank, "b.com", Blank >>,
             << "https://" >>,
             << "not", Blank, "a", Blank, "url" >> }

\* Short codes given to GetLongURL and GetURLStats: the code of a row, a
\* code of no row, and three the validator rejects (a character outside the
\* alphabet, the empty string, 11 characters).
ShortCodes == { << "1" >>, << "z", "z" >>, << "a", "@" >>, << >>,
                << "t", "o", "o", "l", "o", "n", "g", "c", "o", "d", "e" >> }

\* The inputs of the runs with two goroutines.
ConcIDs == { 1, 2 }
ConcRawURLs == { << "https://", "a.com" >>, << Blank, "b.com", Blank >> }
ConcShortCodes == { << "1" >> }

\* Codes a row of the urls table can carry.
RowCodes == { Encode(i) : i \in IDs } \ { Panic }

baseURL == << "http://localhost:8080" >>

\* NewShortenerService: maxRetries: 3
maxRetries == 3

\* The request-handling goroutines.
Procs == { 1, 2 }

\* Error texts of the service (fmt.Errorf) and of the repositories.
ErrNotFound      == "url not found"
ErrAlreadyExists == "short code for URL already exists"
ErrOther         == "connection refused"

VARIABLES
    urls,           \* the rows of table urls (db.sql)
    cache,          \* Redis: the cached domain.URL values, keyed by ShortCode
    clickWorkers,   \* number of elements in the channel s.clickWorkers
    tasks,          \* running increment goroutines, per short code
    proc,           \* the request-handling goroutines
    resolved,       \* per code, GetLongURL calls that returned its long URL
    steady,         \* no increment met a saturated set of running tasks or a store failure
    created,        \* the successful CreateShortURL calls so far: input and response
    number,         \* codec exercise: the identifier
    encoded,        \* codec exercise: Encode(number)
    decoded,        \* codec exercise: Decode(encoded)
    cpc,            \* codec exercise: position
    urls_id_seq,    \* the sequence behind urls.id: the last value nextval returned
    completed,      \* per code, increment goroutines whose update was applied
    text,           \* validator exercise: the argument
    result,         \* validator exercise: the value returned
    vpc             \* validator exercise: the function applied, or "call"

vars == << urls, cache, clickWorkers, tasks, proc, resolved, steady, created,
           number, encoded, decoded, cpc, urls_id_seq, completed, text, result, vpc >>
svcVars == << urls, cache, clickWorkers, tasks, proc, resolved, steady, created,
              urls_id_seq, completed >>
codecVars == << number, encoded, decoded, cpc >>
valVars == << text, result, vpc >>

NoURL == [ID |-> 0, ShortCode |-> << >>, LongURL |-> << >>, CreatedAt |-> 0, Clicks |-> 0]

IdleProc ==
    [pc |-> "idle", op |-> "none", arg |-> << >>, longURL |-> << >>, id |-> 0,
     shortCode |-> << >>, attempt |-> 0, url |-> NoURL,
     err |-> "", val |-> << >>, calls |-> << >>]

\* One call made by a request: the function and its error ("" = nil).
Call(fn, err) == [fn |-> fn, err |-> err]

Row(shortCode) == CHOOSE r \in urls : r.ShortCode = shortCode
HasRow(shortCode) == \E r \in urls : r.ShortCode = shortCode

RECURSIVE SumOver(_, _)
SumOver(f, S) == IF S = {} THEN 0
                 ELSE LET c == CHOOSE x \in S : TRUE
                      IN  f[c] + SumOver(f, S \ {c})
Total(f) == SumOver(f, DOMAIN f)

\* Number of increment goroutines that have started and not ended.
RunningTasks == Total(tasks)

SvcInit ==
    /\ urls = {}
    /\ cache = {}
    /\ clickWorkers = 0
    /\ tasks = [c \in RowCodes |-> 0]
    /\ proc = [p \in Procs |-> IdleProc]
    /\ resolved = [c \in RowCodes |-> 0]
    /\ steady = TRUE
    /\ created = {}
    /\ urls_id_seq = 0
    /\ completed = [c \in RowCodes |-> 0]

(***************************************************************************)
(* repo: PostgresRepo over table urls, RedisRepo over the cache.           *)
(***************************************************************************)
ErrInvalidShortCode == "invalid short code: must be between 1 and 10 characters"

\* The record an accepted insert adds and returns: (identifier, code,
\* normalized long URL, now, clicks = 0).  The identifier is the one the
\* caller passed (PostgresRepository.Create(ctx, id, shortCode, longURL));
\* time.Now() is the ordinal of the insert.
InsertedRow(id, shortCode, longURL) ==
    [ID |-> id, ShortCode |-> shortCode, LongURL |-> longURL,
     CreatedAt |-> Cardinality(urls) + 1, Clicks |-> 0]

\* Create without the table's uniqueness constraints.
CreateNoConflict(id, shortCode, longURL) ==
    IF ~IsValidShortCode(shortCode)
    THEN [err |-> ErrInvalidShortCode, url |-> NoURL]
    ELSE [err |-> "",
          url |-> InsertedRow(id, shortCode, longURL)]

\* PostgresRepo.Create: INSERT ... RETURNING; SQLSTATE 23505 (short_code
\* UNIQUE, id PRIMARY KEY) becomes ErrAlreadyExists.  time.Now() is the
\* ordinal of the insert.
Create(id, shortCode, longURL) ==
    IF ~IsValidShortCode(shortCode)
    THEN [err |-> ErrInvalidShortCode, url |-> NoURL]
    ELSE IF \E r \in urls : r.ShortCode = shortCode \/ r.ID = id
         THEN [err |-> ErrAlreadyExists, url |-> NoURL]
         ELSE [err |-> "",
               url |-> InsertedRow(id, shortCode, longURL)]

\* GetByShortCode whose query lost its WHERE clause: the newest row.
GetByShortCodeLatest(shortCode) ==
    IF ~IsValidShortCode(shortCode)
    THEN [err |-> ErrInvalidShortCode, url |-> NoURL]
    ELSE IF ~HasRow(shortCode)
         THEN [err |-> ErrNotFound, url |-> NoURL]
         ELSE [err |-> "", url |-> CHOOSE r \in urls : \A q \in urls : q.ID <= r.ID]

\* PostgresRepo.GetByShortCode: pgx.ErrNoRows becomes ErrNotFound.
GetByShortCode(shortCode) ==
    IF ~IsValidShortCode(shortCode)
    THEN [err |-> ErrInvalidShortCode, url |-> NoURL]
    ELSE IF ~HasRow(shortCode)
         THEN [err |-> ErrNotFound, url |-> NoURL]
         ELSE [err |-> "", url |-> Row(shortCode)]

\* The update that keeps only the row it wrote: the other rows are lost.
IncrementClicksCounterOnly(shortCode) ==
    { [r EXCEPT !.Clicks = @ + 1] : r \in { q \in urls : q.ShortCode = shortCode } }

\* The update without its WHERE clause: every row is incremented.
IncrementClicksCounterAll(shortCode) ==
    { [r EXCEPT !.Clicks = @ + 1] : r \in urls }

\* The update that writes a count read before another task's update:
\* SET clicks = 1 in place of clicks + 1.
IncrementedRowStale(r) == [r EXCEPT !.Clicks = 1]

\* PostgresRepo.IncrementClicksCounter: UPDATE urls SET clicks = clicks + 1
\* WHERE short_code = $1; the table after it.
IncrementedRow(r) == [r EXCEPT !.Clicks = @ + 1]
IncrementClicksCounter(shortCode) ==
    { IF r.ShortCode = shortCode THEN IncrementedRow(r) ELSE r : r \in urls }

\* The error PostgresRepo.IncrementClicksCounter returns when the store
\* answers: RowsAffected() == 0 becomes ErrNotFound.
IncrementClicksCounterError(shortCode) ==
    IF ~IsValidShortCode(shortCode)
    THEN ErrInvalidShortCode
    ELSE IF ~HasRow(shortCode) THEN ErrNotFound ELSE ""

\* RedisRepo.Get: redis.Nil becomes ErrNotFound.
Get(shortCode) ==
    IF ~IsValidShortCode(shortCode)
    THEN [err |-> ErrInvalidShortCode, url |-> NoURL]
    ELSE IF \E e \in cache : e.ShortCode = shortCode
         THEN [err |-> "", url |-> CHOOSE e \in cache : e.ShortCode = shortCode]
         ELSE [err |-> ErrNotFound, url |-> NoURL]

\* Set that writes nothing.
SetNothing(shortCode, url) == cache

\* RedisRepo.Set: the cache after client.Set(shortCode, json(url), ttl).
Set(shortCode, url) ==
    IF ~IsValidShortCode(shortCode)
    THEN cache
    ELSE { e \in cache : e.ShortCode # shortCode } \cup { url }

(***************************************************************************)
(* service.ShortenerService                                                *)
(***************************************************************************)
ErrMaxRetries    == "max retries reached for creating short URL"
ErrInvalidURL    == "invalid URL"
ErrGenerating    == "error generating short code"
ErrCreating      == "error creating short URL"
ErrInvalidFormat == "invalid short code format"
ErrShortNotFound == "short URL not found"
ErrRetrieving    == "error retrieving long URL"
ErrStats         == "error retrieving URL stats"

Log(p, fn, err) == Append(proc[p].calls, Call(fn, err))

\* return: the request ends with this error and value.
Return(p, err, val, calls) ==
    [proc[p] EXCEPT !.pc = "done", !.err = err, !.val = val, !.calls = calls]

\* The send that is accepted also when the buffer is full.
CanSendOffByOne == clickWorkers <= ClickWorkersCap

\* select { case s.clickWorkers <- struct{}{}: ... default: ... }
\* The send succeeds when the channel's buffer has room.
CanSend == clickWorkers < ClickWorkersCap

\* The goroutine started whether or not the send succeeded.
TasksAfterAsyncAlways(shortCode) == [tasks EXCEPT ![shortCode] = @ + 1]

\* incrementClicksAsync(shortCode): the channel and the running goroutines
\* after the call.
ClickWorkersAfterAsync == IF CanSend THEN clickWorkers + 1 ELSE clickWorkers
TasksAfterAsync(shortCode) ==
    IF CanSend THEN [tasks EXCEPT ![shortCode] = @ + 1] ELSE tasks

\* The channel after an increment goroutine ends: the goroutine never
\* receives from s.clickWorkers.
ClickWorkersAfterTask == clickWorkers

\* What the call leaves in the log: nothing, or the warning of the default case.
AsyncNote == IF CanSend THEN "" ELSE "click workers limit reached, skipping increment"

incrementClicksAsync(shortCode) ==
    /\ clickWorkers' = ClickWorkersAfterAsync
    /\ tasks' = TasksAfterAsync(shortCode)
    /\ steady' = (steady /\ RunningTasks < ClickWorkersCap)

\* The retry budget checked with > in place of >=.
AttemptEntryOffByOne(p, rawURL, attempt, calls) ==
    IF attempt > maxRetries
    THEN [proc[p] EXCEPT !.pc = "done", !.err = ErrMaxRetries, !.attempt = attempt,
                         !.calls = calls]
    ELSE LET longURL == NormalizeURL(rawURL)
         IN  IF ~IsValidURL(longURL)
             THEN [proc[p] EXCEPT !.pc = "done", !.err = ErrInvalidURL,
                                  !.longURL = longURL, !.attempt = attempt,
                                  !.calls = calls]
             ELSE [proc[p] EXCEPT !.pc = "GetNextID", !.longURL = longURL,
                                  !.attempt = attempt, !.calls = calls]

\* The entry of an attempt without the IsValidURL check.
AttemptEntryNoValidation(p, rawURL, attempt, calls) ==
    IF attempt >= maxRetries
    THEN [proc[p] EXCEPT !.pc = "done", !.err = ErrMaxRetries, !.attempt = attempt,
                         !.calls = calls]
    ELSE [proc[p] EXCEPT !.pc = "GetNextID", !.longURL = NormalizeURL(rawURL),
                         !.attempt = attempt, !.calls = calls]

\* createShortURLWithRetries, lines 148-155: the retry budget, NormalizeURL
\* and IsValidURL.  Entered by CreateShortURL (attempt 0) and by each retry.
AttemptEntry(p, rawURL, attempt, calls) ==
    IF attempt >= maxRetries
    THEN [proc[p] EXCEPT !.pc = "done", !.err = ErrMaxRetries, !.attempt = attempt,
                         !.calls = calls]
    ELSE LET longURL == NormalizeURL(rawURL)
         IN  IF ~IsValidURL(longURL)
             THEN [proc[p] EXCEPT !.pc = "done", !.err = ErrInvalidURL,
                                  !.longURL = longURL, !.attempt = attempt,
                                  !.calls = calls]
             ELSE [proc[p] EXCEPT !.pc = "GetNextID", !.longURL = longURL,
                                  !.attempt = attempt, !.calls = calls]

\* CreateShortURL(ctx, longURL) is called.
CreateShortURL(p, rawURL) ==
    /\ proc[p].pc = "idle"
    /\ proc' = [proc EXCEPT ![p] =
                  [AttemptEntry(p, rawURL, 0, << >>)
                      EXCEPT !.op = "CreateShortURL", !.arg = rawURL]]
    /\ UNCHANGED << urls, cache, clickWorkers, tasks, resolved, steady, created, urls_id_seq, completed, codecVars, valVars >>

\* The code made from the identifier after the one that was drawn.
CreateGetNextIDOffByOne(p, id, storeDown) ==
    /\ proc[p].pc = "GetNextID"
    /\ proc' = [proc EXCEPT ![p] =
                  IF storeDown
                  THEN Return(p, ErrGenerating, << >>, Log(p, "pgRepo.GetNextID", ErrOther))
                  ELSE LET shortCode == Encode(id + 1)
                       IN  [proc[p] EXCEPT
                              !.pc = IF shortCode = Panic THEN "panic" ELSE "Create",
                              !.id = id,
                              !.shortCode = shortCode,
                              !.calls = Log(p, "pgRepo.GetNextID", "")]]
    /\ UNCHANGED << urls, cache, clickWorkers, tasks, resolved, steady, created, urls_id_seq, completed, codecVars, valVars >>

\* s.pgRepo.GetNextID(ctx), then s.generator.Encode(id).  storeDown: the
\* store fails with an error of its own.
CreateGetNextID(p, id, storeDown) ==
    /\ proc[p].pc = "GetNextID"
    /\ proc' = [proc EXCEPT ![p] =
                  IF storeDown
                  THEN Return(p, ErrGenerating, << >>, Log(p, "pgRepo.GetNextID", ErrOther))
                  ELSE LET shortCode == Encode(id)
                       IN  [proc[p] EXCEPT
                              !.pc = IF shortCode = Panic THEN "panic" ELSE "Create",
                              !.id = id,
                              !.shortCode = shortCode,
                              !.calls = Log(p, "pgRepo.GetNextID", "")]]
    /\ UNCHANGED << urls, cache, clickWorkers, tasks, resolved, steady, created, urls_id_seq, completed, codecVars, valVars >>

\* The insert after which the cache is written whatever the store answered.
CreateInsertCacheAnyway(p, storeDown) ==
    /\ proc[p].pc = "Create"
    /\ LET me == proc[p]
           r  == IF storeDown
                 THEN [err |-> ErrOther, url |-> NoURL]
                 ELSE Create(me.id, me.shortCode, me.longURL)
           calls == Log(p, "pgRepo.Create", r.err)
       IN  IF r.err = ErrAlreadyExists
           THEN /\ proc' = [proc EXCEPT ![p] =
                              AttemptEntry(p, me.longURL, me.attempt + 1, calls)]
                /\ urls' = urls
           ELSE /\ proc' = [proc EXCEPT ![p] =
                              [me EXCEPT !.pc = "Set", !.url = r.url, !.calls = calls]]
                /\ urls' = IF r.err = "" THEN urls \cup { r.url } ELSE urls
    /\ UNCHANGED << cache, clickWorkers, tasks, resolved, steady, created, urls_id_seq, completed, codecVars, valVars >>

\* The insert whose retry sends the identifier and the code that collided again.
CreateInsertRetrySameID(p, storeDown) ==
    /\ proc[p].pc = "Create"
    /\ LET me == proc[p]
           r  == IF storeDown
                 THEN [err |-> ErrOther, url |-> NoURL]
                 ELSE Create(me.id, me.shortCode, me.longURL)
           calls == Log(p, "pgRepo.Create", r.err)
       IN  IF r.err = ErrAlreadyExists
           THEN /\ proc' = [proc EXCEPT ![p] =
                              IF me.attempt + 1 >= maxRetries
                              THEN AttemptEntry(p, me.longURL, me.attempt + 1, calls)
                              ELSE [me EXCEPT !.attempt = @ + 1, !.calls = calls]]
                /\ urls' = urls
           ELSE IF r.err # ""
           THEN /\ proc' = [proc EXCEPT ![p] = Return(p, ErrCreating, << >>, calls)]
                /\ urls' = urls
           ELSE /\ proc' = [proc EXCEPT ![p] =
                              [me EXCEPT !.pc = "Set", !.url = r.url, !.calls = calls]]
                /\ urls' = urls \cup { r.url }
    /\ UNCHANGED << cache, clickWorkers, tasks, resolved, steady, created, urls_id_seq, completed, codecVars, valVars >>

\* Values of the sequence when the service starts: new, or used 60 times
\* before (deleting rows does not reset a sequence).
SeqStarts == { 0, 60 }

\* s.pgRepo.GetNextID(ctx) answered by PostgresRepo.GetNextID,
\* SELECT nextval('urls_id_seq'): the next value, never one issued before;
\* then s.generator.Encode(id).
CreateNextval(p) ==
    /\ proc[p].pc = "GetNextID"
    /\ \E start \in SeqStarts :
           urls_id_seq >= start /\ urls_id_seq < start + MaxIssued
    /\ urls_id_seq' = urls_id_seq + 1
    /\ LET id == urls_id_seq + 1
           shortCode == Encode(id)
       IN  proc' = [proc EXCEPT ![p] =
                      [proc[p] EXCEPT
                         !.pc = IF shortCode = Panic THEN "panic" ELSE "Create",
                         !.id = id,
                         !.shortCode = shortCode,
                         !.calls = Log(p, "pgRepo.GetNextID", "")]]
    /\ UNCHANGED << urls, cache, clickWorkers, tasks, resolved, steady, created, completed, codecVars, valVars >>

\* The insert that tries again after any error of the store.
CreateInsertRetryAnyError(p, storeDown) ==
    /\ proc[p].pc = "Create"
    /\ LET me == proc[p]
           r  == IF storeDown
                 THEN [err |-> ErrOther, url |-> NoURL]
                 ELSE Create(me.id, me.shortCode, me.longURL)
           calls == Log(p, "pgRepo.Create", r.err)
       IN  IF r.err # ""
           THEN /\ proc' = [proc EXCEPT ![p] =
                              AttemptEntry(p, me.longURL, me.attempt + 1, calls)]
                /\ urls' = urls
           ELSE /\ proc' = [proc EXCEPT ![p] =
                              [me EXCEPT !.pc = "Set", !.url = r.url, !.calls = calls]]
                /\ urls' = urls \cup { r.url }
    /\ UNCHANGED << cache, clickWorkers, tasks, resolved, steady, created, urls_id_seq, completed, codecVars, valVars >>

\* The insert that, on a collision, overwrites the long URL of the record
\* that holds the code (ON CONFLICT ... DO UPDATE) before trying again.
CreateInsertUpsert(p, storeDown) ==
    /\ proc[p].pc = "Create"
    /\ LET me == proc[p]
           r  == IF storeDown
                 THEN [err |-> ErrOther, url |-> NoURL]
                 ELSE Create(me.id, me.shortCode, me.longURL)
           calls == Log(p, "pgRepo.Create", r.err)
       IN  IF r.err = ErrAlreadyExists
           THEN /\ proc' = [proc EXCEPT ![p] =
                              AttemptEntry(p, me.longURL, me.attempt + 1, calls)]
                /\ urls' = { IF q.ShortCode = me.shortCode
                             THEN [q EXCEPT !.LongURL = me.longURL] ELSE q : q \in urls }
           ELSE IF r.err # ""
           THEN /\ proc' = [proc EXCEPT ![p] = Return(p, ErrCreating, << >>, calls)]
                /\ urls' = urls
           ELSE /\ proc' = [proc EXCEPT ![p] =
                              [me EXCEPT !.pc = "Set", !.url = r.url, !.calls = calls]]
                /\ urls' = urls \cup { r.url }
    /\ UNCHANGED << cache, clickWorkers, tasks, resolved, steady, created, urls_id_seq, completed, codecVars, valVars >>

\* s.pgRepo.Create(ctx, id, shortCode, longURL) and what follows its answer:
\* a retry on ErrAlreadyExists, an error, or going on to the cache.
CreateInsert(p, storeDown) ==
    /\ proc[p].pc = "Create"
    /\ LET me == proc[p]
           r  == IF storeDown
                 THEN [err |-> ErrOther, url |-> NoURL]
                 ELSE Create(me.id, me.shortCode, me.longURL)
           calls == Log(p, "pgRepo.Create", r.err)
       IN  IF r.err = ErrAlreadyExists
           THEN /\ proc' = [proc EXCEPT ![p] =
                              AttemptEntry(p, me.longURL, me.attempt + 1, calls)]
                /\ urls' = urls
           ELSE IF r.err # ""
           THEN /\ proc' = [proc EXCEPT ![p] = Return(p, ErrCreating, << >>, calls)]
                /\ urls' = urls
           ELSE /\ proc' = [proc EXCEPT ![p] =
                              [me EXCEPT !.pc = "Set", !.url = r.url, !.calls = calls]]
                /\ urls' = urls \cup { r.url }
    /\ UNCHANGED << cache, clickWorkers, tasks, resolved, steady, created, urls_id_seq, completed, codecVars, valVars >>

\* A CreateURLResponse whose ShortURL lacks the "/" between base URL and code.
CreateURLResponseNoSlash(shortCode, longURL) ==
    [ShortCode |-> shortCode,
     ShortURL  |-> baseURL \o shortCode,
     LongURL   |-> longURL]

\* domain.CreateURLResponse
CreateURLResponse(shortCode, longURL) ==
    [ShortCode |-> shortCode,
     ShortURL  |-> baseURL \o << "/" >> \o shortCode,
     LongURL   |-> longURL]

\* The cache write after the insert whose failure fails the creation.
CreateCacheSetFatal(p, cacheDown) ==
    /\ proc[p].pc = "Set"
    /\ LET me == proc[p]
       IN  IF cacheDown
           THEN /\ proc' = [proc EXCEPT ![p] =
                              Return(p, ErrCreating, << >>, Log(p, "redisRepo.Set", ErrOther))]
                /\ UNCHANGED << cache, created >>
           ELSE /\ cache' = Set(me.shortCode, me.url)
                /\ proc' = [proc EXCEPT ![p] =
                              Return(p, "", CreateURLResponse(me.shortCode, me.longURL),
                                     Log(p, "redisRepo.Set", ""))]
                /\ created' = created \cup
                                  { [rawURL |-> me.arg,
                                     response |-> CreateURLResponse(me.shortCode, me.longURL)] }
    /\ UNCHANGED << urls, clickWorkers, tasks, resolved, steady, urls_id_seq, completed, codecVars, valVars >>

\* The cache write after the insert that stores the long URL as the caller
\* gave it, not as it was persisted.
CreateCacheSetRawURL(p, cacheDown) ==
    /\ proc[p].pc = "Set"
    /\ LET me == proc[p]
       IN  /\ cache' = IF cacheDown THEN cache
                       ELSE Set(me.shortCode, [me.url EXCEPT !.LongURL = me.arg])
           /\ proc' = [proc EXCEPT ![p] =
                         Return(p, "", CreateURLResponse(me.shortCode, me.longURL),
                                Log(p, "redisRepo.Set", IF cacheDown THEN ErrOther ELSE ""))]
           /\ created' = created \cup
                             { [rawURL |-> me.arg,
                                response |-> CreateURLResponse(me.shortCode, me.longURL)] }
    /\ UNCHANGED << urls, clickWorkers, tasks, resolved, steady, urls_id_seq, completed, codecVars, valVars >>

\* s.redisRepo.Set(ctx, shortCode, url) after the insert, then the response.
\* cacheDown: the cache write fails (logged only).
CreateCacheSet(p, cacheDown) ==
    /\ proc[p].pc = "Set"
    /\ LET me == proc[p]
       IN  /\ cache' = IF cacheDown THEN cache ELSE Set(me.shortCode, me.url)
           /\ proc' = [proc EXCEPT ![p] =
                         Return(p, "", CreateURLResponse(me.shortCode, me.longURL),
                                Log(p, "redisRepo.Set", IF cacheDown THEN ErrOther ELSE ""))]
           /\ created' = created \cup
                             { [rawURL |-> me.arg,
                                response |-> CreateURLResponse(me.shortCode, me.longURL)] }
    /\ UNCHANGED << urls, clickWorkers, tasks, resolved, steady, urls_id_seq, completed, codecVars, valVars >>

\* A GetLongURL for the code of a row may start while the run's count of
\* resolutions has room.
InFlight ==
    Cardinality({ q \in Procs : /\ proc[q].op = "GetLongURL"
                                /\ proc[q].arg \in RowCodes
                                /\ proc[q].pc \in { "Get", "GetByShortCode", "GetSet" } })
MayResolve(code, budget) ==
    code \in RowCodes => Total(resolved) + InFlight < budget
Resolved(code) ==
    IF code \in RowCodes THEN [resolved EXCEPT ![code] = @ + 1] ELSE resolved

\* GetLongURL that goes to the store without asking the cache.
GetLongURLStoreFirst(p, shortCode) ==
    /\ proc[p].pc = "idle"
    /\ proc' = [proc EXCEPT ![p] =
                  IF ~IsValidShortCode(shortCode)
                  THEN [proc[p] EXCEPT !.pc = "done", !.op = "GetLongURL",
                                       !.arg = shortCode, !.err = ErrInvalidFormat]
                  ELSE [proc[p] EXCEPT !.pc = "GetByShortCode", !.op = "GetLongURL",
                                       !.arg = shortCode]]
    /\ UNCHANGED << urls, cache, clickWorkers, tasks, resolved, steady, created, urls_id_seq, completed, codecVars, valVars >>

\* GetLongURL(ctx, shortCode) is called: the short-code check.
GetLongURL(p, shortCode) ==
    /\ proc[p].pc = "idle"
    /\ proc' = [proc EXCEPT ![p] =
                  IF ~IsValidShortCode(shortCode)
                  THEN [proc[p] EXCEPT !.pc = "done", !.op = "GetLongURL",
                                       !.arg = shortCode, !.err = ErrInvalidFormat]
                  ELSE [proc[p] EXCEPT !.pc = "Get", !.op = "GetLongURL",
                                       !.arg = shortCode]]
    /\ UNCHANGED << urls, cache, clickWorkers, tasks, resolved, steady, created, urls_id_seq, completed, codecVars, valVars >>

\* The cache lookup that fails the call on a cache error other than not-found.
GetCacheGetFatal(p, cacheDown) ==
    /\ proc[p].pc = "Get"
    /\ LET me == proc[p]
           r  == IF cacheDown THEN [err |-> ErrOther, url |-> NoURL] ELSE Get(me.arg)
           calls == Log(p, "redisRepo.Get", r.err)
       IN  IF r.err = ""
           THEN /\ incrementClicksAsync(me.arg)
                /\ resolved' = Resolved(me.arg)
                /\ proc' = [proc EXCEPT ![p] =
                              [Return(p, "", r.url.LongURL,
                                      Append(calls, Call("incrementClicksAsync", AsyncNote)))
                                 EXCEPT !.url = r.url]]
           ELSE /\ proc' = [proc EXCEPT ![p] =
                              IF r.err = ErrNotFound
                              THEN [me EXCEPT !.pc = "GetByShortCode", !.calls = calls]
                              ELSE Return(p, ErrRetrieving, << >>, calls)]
                /\ UNCHANGED << clickWorkers, tasks, resolved, steady >>
    /\ UNCHANGED << urls, cache, created, urls_id_seq, completed, codecVars, valVars >>

\* s.redisRepo.Get(ctx, shortCode): a hit schedules the increment and
\* returns; any error is a miss.
GetCacheGet(p, cacheDown) ==
    /\ proc[p].pc = "Get"
    /\ LET me == proc[p]
           r  == IF cacheDown THEN [err |-> ErrOther, url |-> NoURL] ELSE Get(me.arg)
           calls == Log(p, "redisRepo.Get", r.err)
       IN  IF r.err = ""
           THEN /\ incrementClicksAsync(me.arg)
                /\ resolved' = Resolved(me.arg)
                /\ proc' = [proc EXCEPT ![p] =
                              [Return(p, "", r.url.LongURL,
                                      Append(calls, Call("incrementClicksAsync", AsyncNote)))
                                 EXCEPT !.url = r.url]]
           ELSE /\ proc' = [proc EXCEPT ![p] =
                              [me EXCEPT !.pc = "GetByShortCode", !.calls = calls]]
                /\ UNCHANGED << clickWorkers, tasks, resolved, steady >>
    /\ UNCHANGED << urls, cache, created, urls_id_seq, completed, codecVars, valVars >>

\* The store lookup without the errors.Is(err, repo.ErrNotFound) case.
GetStoreGetNoIs(p, storeDown) ==
    /\ proc[p].pc = "GetByShortCode"
    /\ LET me == proc[p]
           r  == IF storeDown
                 THEN [err |-> ErrOther, url |-> NoURL]
                 ELSE GetByShortCode(me.arg)
           calls == Log(p, "pgRepo.GetByShortCode", r.err)
       IN  proc' = [proc EXCEPT ![p] =
                      IF r.err # ""
                      THEN Return(p, ErrRetrieving, << >>, calls)
                      ELSE [me EXCEPT !.pc = "GetSet", !.url = r.url, !.calls = calls]]
    /\ UNCHANGED << urls, cache, clickWorkers, tasks, resolved, steady, created, urls_id_seq, completed, codecVars, valVars >>

\* The store lookup that hands the store's own error to the caller.
GetStoreGetLeak(p, storeDown) ==
    /\ proc[p].pc = "GetByShortCode"
    /\ LET me == proc[p]
           r  == IF storeDown
                 THEN [err |-> ErrOther, url |-> NoURL]
                 ELSE GetByShortCode(me.arg)
           calls == Log(p, "pgRepo.GetByShortCode", r.err)
       IN  proc' = [proc EXCEPT ![p] =
                      IF r.err # ""
                      THEN IF r.err = ErrNotFound
                           THEN Return(p, ErrShortNotFound, << >>, calls)
                           ELSE Return(p, r.err, << >>, calls)
                      ELSE [me EXCEPT !.pc = "GetSet", !.url = r.url, !.calls = calls]]
    /\ UNCHANGED << urls, cache, clickWorkers, tasks, resolved, steady, created, urls_id_seq, completed, codecVars, valVars >>

\* s.pgRepo.GetByShortCode(ctx, shortCode) after a miss.
GetStoreGet(p, storeDown) ==
    /\ proc[p].pc = "GetByShortCode"
    /\ LET me == proc[p]
           r  == IF storeDown
                 THEN [err |-> ErrOther, url |-> NoURL]
                 ELSE GetByShortCode(me.arg)
           calls == Log(p, "pgRepo.GetByShortCode", r.err)
       IN  proc' = [proc EXCEPT ![p] =
                      IF r.err # ""
                      THEN IF r.err = ErrNotFound
                           THEN Return(p, ErrShortNotFound, << >>, calls)
                           ELSE Return(p, ErrRetrieving, << >>, calls)
                      ELSE [me EXCEPT !.pc = "GetSet", !.url = r.url, !.calls = calls]]
    /\ UNCHANGED << urls, cache, clickWorkers, tasks, resolved, steady, created, urls_id_seq, completed, codecVars, valVars >>

\* The cache write of GetLongURL that returns only once no increment task
\* of the code is running.
GetCacheSetJoin(p, cacheDown) ==
    /\ proc[p].pc = "GetSet"
    /\ tasks[proc[p].arg] = 0
    /\ LET me == proc[p]
       IN  /\ cache' = IF cacheDown THEN cache ELSE Set(me.arg, me.url)
           /\ incrementClicksAsync(me.arg)
           /\ resolved' = Resolved(me.arg)
           /\ proc' = [proc EXCEPT ![p] =
                         Return(p, "", me.url.LongURL,
                                proc[p].calls
                                  \o << Call("redisRepo.Set", IF cacheDown THEN ErrOther ELSE ""),
                                        Call("incrementClicksAsync", AsyncNote) >>)]
    /\ UNCHANGED << urls, created, urls_id_seq, completed, codecVars, valVars >>

\* s.redisRepo.Set(ctx, shortCode, url) after the store lookup, then
\* incrementClicksAsync and the return.
GetCacheSet(p, cacheDown) ==
    /\ proc[p].pc = "GetSet"
    /\ LET me == proc[p]
       IN  /\ cache' = IF cacheDown THEN cache ELSE Set(me.arg, me.url)
           /\ incrementClicksAsync(me.arg)
           /\ resolved' = Resolved(me.arg)
           /\ proc' = [proc EXCEPT ![p] =
                         Return(p, "", me.url.LongURL,
                                proc[p].calls
                                  \o << Call("redisRepo.Set", IF cacheDown THEN ErrOther ELSE ""),
                                        Call("incrementClicksAsync", AsyncNote) >>)]
    /\ UNCHANGED << urls, created, urls_id_seq, completed, codecVars, valVars >>

\* A StatsResponse that leaves Clicks at its zero value.
StatsResponseNoClicks(url) ==
    [ShortCode |-> url.ShortCode, LongURL |-> url.LongURL,
     Clicks |-> 0, CreatedAt |-> url.CreatedAt]

\* domain.StatsResponse
StatsResponse(url) ==
    [ShortCode |-> url.ShortCode, LongURL |-> url.LongURL,
     Clicks |-> url.Clicks, CreatedAt |-> url.CreatedAt]

\* GetURLStats without the short-code check.
GetURLStatsNoCheck(p, shortCode) ==
    /\ proc[p].pc = "idle"
    /\ proc' = [proc EXCEPT ![p] =
                  [proc[p] EXCEPT !.pc = "StatsGetByShortCode",
                                  !.op = "GetURLStats", !.arg = shortCode]]
    /\ UNCHANGED << urls, cache, clickWorkers, tasks, resolved, steady, created, urls_id_seq, completed, codecVars, valVars >>

\* GetURLStats(ctx, shortCode) is called: the short-code check.
GetURLStats(p, shortCode) ==
    /\ proc[p].pc = "idle"
    /\ proc' = [proc EXCEPT ![p] =
                  IF ~IsValidShortCode(shortCode)
                  THEN [proc[p] EXCEPT !.pc = "done", !.op = "GetURLStats",
                                       !.arg = shortCode, !.err = ErrInvalidFormat]
                  ELSE [proc[p] EXCEPT !.pc = "StatsGetByShortCode",
                                       !.op = "GetURLStats", !.arg = shortCode]]
    /\ UNCHANGED << urls, cache, clickWorkers, tasks, resolved, steady, created, urls_id_seq, completed, codecVars, valVars >>

\* GetURLStats that answers from the cache when the cache holds the code.
StatsCacheFirst(p, storeDown) ==
    /\ proc[p].pc = "StatsGetByShortCode"
    /\ LET me == proc[p]
           c  == Get(me.arg)
           r  == IF c.err = ""
                 THEN c
                 ELSE IF storeDown
                      THEN [err |-> ErrOther, url |-> NoURL]
                      ELSE GetByShortCode(me.arg)
           calls == Log(p, IF c.err = "" THEN "redisRepo.Get" ELSE "pgRepo.GetByShortCode",
                        r.err)
       IN  proc' = [proc EXCEPT ![p] =
                      IF r.err # ""
                      THEN IF r.err = ErrNotFound
                           THEN Return(p, ErrShortNotFound, << >>, calls)
                           ELSE Return(p, ErrStats, << >>, calls)
                      ELSE [Return(p, "", StatsResponse(r.url), calls)
                              EXCEPT !.url = r.url]]
    /\ UNCHANGED << urls, cache, clickWorkers, tasks, resolved, steady, created, urls_id_seq, completed, codecVars, valVars >>

\* s.pgRepo.GetByShortCode(ctx, shortCode) of GetURLStats, and the return.
StatsStoreGet(p, storeDown) ==
    /\ proc[p].pc = "StatsGetByShortCode"
    /\ LET me == proc[p]
           r  == IF storeDown
                 THEN [err |-> ErrOther, url |-> NoURL]
                 ELSE GetByShortCode(me.arg)
           calls == Log(p, "pgRepo.GetByShortCode", r.err)
       IN  proc' = [proc EXCEPT ![p] =
                      IF r.err # ""
                      THEN IF r.err = ErrNotFound
                           THEN Return(p, ErrShortNotFound, << >>, calls)
                           ELSE Return(p, ErrStats, << >>, calls)
                      ELSE [Return(p, "", StatsResponse(r.url), calls)
                              EXCEPT !.url = r.url]]
    /\ UNCHANGED << urls, cache, clickWorkers, tasks, resolved, steady, created, urls_id_seq, completed, codecVars, valVars >>

\* The goroutine started by incrementClicksAsync runs
\* s.pgRepo.IncrementClicksCounter under its own 5 s timeout and ends.
\* storeDown: the update fails or times out (logged only).
IncrementTask(shortCode, storeDown) ==
    /\ tasks[shortCode] > 0
    /\ tasks' = [tasks EXCEPT ![shortCode] = @ - 1]
    /\ clickWorkers' = ClickWorkersAfterTask
    /\ urls' = IF storeDown THEN urls ELSE IncrementClicksCounter(shortCode)
    /\ LET err == IF storeDown THEN ErrOther
                  ELSE IncrementClicksCounterError(shortCode)
       IN  /\ steady' = (steady /\ err = "")
           /\ completed' = IF err = "" THEN [completed EXCEPT ![shortCode] = @ + 1]
                           ELSE completed
    /\ UNCHANGED << cache, proc, resolved, created, urls_id_seq, codecVars, valVars >>

\* The cache entry of shortCode reaches its time-to-live.
Expire(shortCode) ==
    /\ \E e \in cache : e.ShortCode = shortCode
    /\ cache' = { e \in cache : e.ShortCode # shortCode }
    /\ UNCHANGED << urls, clickWorkers, tasks, proc, resolved, steady, created, urls_id_seq, completed, codecVars, valVars >>

\* An HTTP answer: status, Location header, the "error" text of a JSON
\* error body, and the JSON body of a success.
HTTP(status, location, error, body) ==
    [Status |-> status, Location |-> location, Error |-> error, Body |-> body]

\* Redirect that answers an internal error of the service with 500.
RedirectInternal(err, longURL) ==
    IF err # ""
    THEN IF err = ErrRetrieving
         THEN HTTP(500, << >>, "Internal server error", NoURL)
         ELSE HTTP(404, << >>, "Short URL not found", NoURL)
    ELSE HTTP(302, longURL, "", NoURL)

\* Handler.Redirect after h.service.GetLongURL returned (err, longURL):
\* c.JSON(http.StatusNotFound, ...) or c.Redirect(http.StatusFound, longURL)
Redirect(err, longURL) ==
    IF err # ""
    THEN HTTP(404, << >>, "Short URL not found", NoURL)
    ELSE HTTP(302, longURL, "", NoURL)

\* Handler.GetStats after h.service.GetURLStats returned (err, stats)
GetStats(err, stats) ==
    IF err # ""
    THEN HTTP(404, << >>, "Short URL not found", NoURL)
    ELSE HTTP(200, << >>, "", stats)

\* Handler.CreateShortURL after h.service.CreateShortURL returned
\* (err, response)
HandlerCreateShortURL(err, response) ==
    IF err # ""
    THEN HTTP(500, << >>, "Failed to create short URL", NoURL)
    ELSE HTTP(201, << >>, "", response)

\* middleware.Recover: a panic in the handler becomes 500
Recover == HTTP(500, << >>, "Internal Server Error", NoURL)

\* The handler of request q answers.
Answer(q) ==
    IF q.pc = "panic"
    THEN Recover
    ELSE CASE q.op = "GetLongURL"  -> Redirect(q.err, q.val)
           [] q.op = "GetURLStats" -> GetStats(q.err, q.val)
           [] OTHER                -> HandlerCreateShortURL(q.err, q.val)

\* The service has returned to the handler (or panicked, routes.go:29) and
\* the handler writes the HTTP answer.
Respond(p) ==
    /\ proc[p].pc \in { "done", "panic" }
    /\ proc' = [proc EXCEPT ![p] =
                  [IdleProc EXCEPT !.pc = "answered", !.op = proc[p].op,
                                   !.err = proc[p].err,
                                   !.val = Answer(proc[p])]]
    /\ UNCHANGED << urls, cache, clickWorkers, tasks, resolved, steady, created, urls_id_seq, completed, codecVars, valVars >>

\* The end of a request that aborts the increment tasks: goroutines
\* running under the context of the request, cancelled when the handler
\* returns.
NextRequestCancel(p) ==
    /\ proc[p].pc = "answered"
    /\ proc' = [proc EXCEPT ![p] = IdleProc]
    /\ tasks' = [c \in RowCodes |-> 0]
    /\ UNCHANGED << urls, cache, clickWorkers, resolved, steady, created, urls_id_seq, completed, codecVars, valVars >>

\* The answer is sent, the handler returns (which cancels the context of
\* the request) and the goroutine serves the next request.
NextRequest(p) ==
    /\ proc[p].pc = "answered"
    /\ proc' = [proc EXCEPT ![p] = IdleProc]
    /\ UNCHANGED << urls, cache, clickWorkers, tasks, resolved, steady, created, urls_id_seq, completed, codecVars, valVars >>

\* The steps of the service with requests served by the goroutines P,
\* identifiers I, raw URLs U, short codes C, and collaborator failures F
\* (FALSE: the call is answered, TRUE: it fails); R bounds the resolutions.
SvcNext(P, I, U, C, F, R) ==
    \/ \E p \in P, rawURL \in U : CreateShortURL(p, rawURL)
    \/ \E p \in P, id \in I, storeDown \in F : CreateGetNextID(p, id, storeDown)
    \/ \E p \in P, storeDown \in F : CreateInsert(p, storeDown)
    \/ \E p \in P, cacheDown \in F : CreateCacheSet(p, cacheDown)
    \/ \E p \in P, shortCode \in C : MayResolve(shortCode, R) /\ GetLongURL(p, shortCode)
    \/ \E p \in P, cacheDown \in F : GetCacheGet(p, cacheDown)
    \/ \E p \in P, storeDown \in F : GetStoreGet(p, storeDown)
    \/ \E p \in P, cacheDown \in F : GetCacheSet(p, cacheDown)
    \/ \E p \in P, shortCode \in C : GetURLStats(p, shortCode)
    \/ \E p \in P, storeDown \in F : StatsStoreGet(p, storeDown)
    \/ \E shortCode \in RowCodes, storeDown \in F : IncrementTask(shortCode, storeDown)
    \/ \E shortCode \in RowCodes : Expire(shortCode)
    \/ \E p \in P : Respond(p)
    \/ \E p \in P : NextRequest(p)

(***************************************************************************)
(* The codec on its own: Encode applied to a number, Decode to the result. *)
(***************************************************************************)
BigNumbers == { 123456789 }
Numbers == 0..MaxNumber \cup BigNumbers

CodecOff == number = 0 /\ encoded = << >> /\ decoded = 0 /\ cpc = "off"

\* The validator exercise is not running.
ValOff == text = << >> /\ result = << >> /\ vpc = "off"

CodecInit ==
    /\ SvcInit
    /\ ValOff
    /\ number \in Numbers
    /\ encoded = << >>
    /\ decoded = 0
    /\ cpc = "Encode"

\* encoded := g.Encode(number)
DoEncode ==
    /\ cpc = "Encode"
    /\ encoded' = Encode(number)
    /\ cpc' = IF Encode(number) = Panic THEN "panic" ELSE "Decode"
    /\ UNCHANGED << number, decoded, svcVars, valVars >>

\* decoded := g.Decode(encoded)
DoDecode ==
    /\ cpc = "Decode"
    /\ decoded' = Decode(encoded)
    /\ cpc' = "done"
    /\ UNCHANGED << number, encoded, svcVars, valVars >>

CodecNext == DoEncode \/ DoDecode

DecodeNext == DoDecode

(***************************************************************************)
(* The validators and Decode on texts: each function applied to an         *)
(* argument drawn from a set of texts.                                     *)
(***************************************************************************)
\* All sequences over S of length 0..n.
Seqs(S, n) == UNION { [1..k -> S] : k \in 0..n }

\* Characters of the texts: four of the alphabet, and space, @, _, -, .,
\* newline and a non-ASCII character (n with tilde), which are not.
Chars == { "0", "9", "A", "z", " ", "@", "_", "-", ".", "\n", "U+00F1" }

\* n times the character c.
Fill(c, n) == [k \in 1..n |-> c]

\* Texts around the longest short code: 9 to 12 characters of the alphabet,
\* and 10 characters of which the first or the last is any of Chars.
LongTexts ==
    { Fill("A", n) : n \in (MaxShortCodeLength - 1)..(MaxShortCodeLength + 2) }
      \cup { << c >> \o Fill("A", MaxShortCodeLength - 1) : c \in Chars }
      \cup { Fill("A", MaxShortCodeLength - 1) \o << c >> : c \in Chars }

CodeTexts == Seqs(Chars, MaxTextLen) \cup LongTexts

\* Texts given to Decode: their value fits the model's integers.
DecodeTexts ==
    Seqs(Chars, MaxTextLen)
      \cup { Fill("z", 5), Fill("0", 5), Fill("z", 4) \o << "@" >>,
             << "@" >> \o Fill("z", 4), << "0", "0", "@", "0", "0" >> }

\* Pieces of the URL texts.
Pieces == { "http://", "https://", "ftp://", "a.com", "localhost:8080",
            "192.168.1.1", "/path", Blank }
URLTexts == Seqs(Pieces, MaxPieces)

ShortCodeInit ==
    /\ SvcInit
    /\ CodecOff
    /\ text \in CodeTexts
    /\ result = << >>
    /\ vpc = "call"

URLInit ==
    /\ SvcInit
    /\ CodecOff
    /\ text \in URLTexts
    /\ result = << >>
    /\ vpc = "call"

DecodeInit ==
    /\ SvcInit
    /\ ValOff
    /\ number = 0
    /\ encoded \in DecodeTexts
    /\ decoded = 0
    /\ cpc = "Decode"

\* result := validator.IsValidShortCode(text)
DoIsValidShortCode ==
    /\ vpc = "call"
    /\ result' = IsValidShortCode(text)
    /\ vpc' = "IsValidShortCode"
    /\ UNCHANGED << text, svcVars, codecVars >>

\* result := validator.IsValidURL(text)
DoIsValidURL ==
    /\ vpc = "call"
    /\ result' = IsValidURL(text)
    /\ vpc' = "IsValidURL"
    /\ UNCHANGED << text, svcVars, codecVars >>

\* result := validator.NormalizeURL(text)
DoNormalizeURL ==
    /\ vpc = "call"
    /\ result' = NormalizeURL(text)
    /\ vpc' = "NormalizeURL"
    /\ UNCHANGED << text, svcVars, codecVars >>

ShortCodeNext == DoIsValidShortCode
URLNext == DoIsValidURL \/ DoNormalizeURL

(***************************************************************************)
(* Specifications.                                                         *)
(***************************************************************************)
Init == SvcInit /\ CodecOff /\ ValOff

\* One goroutine serving requests one after the other, with the increment
\* goroutines and the cache's expiry running beside it.
Next == SvcNext({ 1 }, IDs, RawURLs, ShortCodes, BOOLEAN, MaxResolved)
Spec == Init /\ [][Next]_vars

\* Two goroutines creating short URLs concurrently, with the identifiers
\* of the sequence and no collaborator failure.
SeqInit ==
    /\ urls = {}
    /\ cache = {}
    /\ clickWorkers = 0
    /\ tasks = [c \in RowCodes |-> 0]
    /\ proc = [p \in Procs |-> IdleProc]
    /\ resolved = [c \in RowCodes |-> 0]
    /\ steady = TRUE
    /\ created = {}
    /\ urls_id_seq \in SeqStarts
    /\ completed = [c \in RowCodes |-> 0]
    /\ CodecOff
    /\ ValOff

NextSeq ==
    \/ \E p \in Procs, rawURL \in ConcRawURLs : CreateShortURL(p, rawURL)
    \/ \E p \in Procs : CreateNextval(p)
    \/ \E p \in Procs : CreateInsert(p, FALSE)
    \/ \E p \in Procs : CreateCacheSet(p, FALSE)
    \/ \E p \in Procs : Respond(p)
    \/ \E p \in Procs : NextRequest(p)
SpecSeq == SeqInit /\ [][NextSeq]_vars

\* Two goroutines serving requests concurrently.
NextConc ==
    SvcNext(Procs, ConcIDs, ConcRawURLs, ConcShortCodes, { FALSE }, ConcResolved)
SpecConc == Init /\ [][NextConc]_vars

SpecCodec == CodecInit /\ [][CodecNext]_vars

\* Decode applied to a text.
SpecDecode == DecodeInit /\ [][DecodeNext]_vars

\* IsValidShortCode applied to a text.
SpecShortCode == ShortCodeInit /\ [][ShortCodeNext]_vars

\* IsValidURL and NormalizeURL applied to a URL text.
SpecURL == URLInit /\ [][URLNext]_vars

\* One goroutine serving requests for one code, where every collaborator
\* call of a GetLongURL in progress is answered (or fails) and the call goes
\* on, while an increment goroutine may run for ever.
LiveIDs == { 1 }
LiveRawURLs == { << "https://", "a.com" >> }
LiveShortCodes == { << "1" >> }

NextLive == SvcNext({ 1 }, LiveIDs, LiveRawURLs, LiveShortCodes, BOOLEAN, MaxResolved)

\* The steps of a GetLongURL in progress in goroutine p.
GetLongURLStep(p) ==
    \/ \E cacheDown \in BOOLEAN : GetCacheGet(p, cacheDown)
    \/ \E storeDown \in BOOLEAN : GetStoreGet(p, storeDown)
    \/ \E cacheDown \in BOOLEAN : GetCacheSet(p, cacheDown)

SpecLive == Init /\ [][NextLive]_vars /\ WF_vars(GetLongURLStep(1))

\* Decode applied to a code and Encode to the result.
\* Characters of the codes: the first and the last of each range of the
\* alphabet, and "1".
CodeChars == { "0", "1", "9", "A", "Z", "a", "z" }

\* The codes: every text of 1 to MaxTextLen characters of CodeChars, and
\* three of 5 characters.
Codes ==
    (Seqs(CodeChars, MaxTextLen) \ { << >> })
      \cup { Fill("z", 5), << "1" >> \o Fill("0", 4), << "0" >> \o Fill("z", 4) }

InverseInit ==
    /\ SvcInit
    /\ text \in Codes
    /\ result = << >>
    /\ vpc = "off"
    /\ number = 0
    /\ encoded = << >>
    /\ decoded = 0
    /\ cpc = "DecodeCode"

\* decoded := g.Decode(text)
DoDecodeCode ==
    /\ cpc = "DecodeCode"
    /\ decoded' = Decode(text)
    /\ cpc' = "EncodeBack"
    /\ UNCHANGED << number, encoded, svcVars, valVars >>

\* encoded := g.Encode(decoded)
DoEncodeBack ==
    /\ cpc = "EncodeBack"
    /\ number' = decoded
    /\ encoded' = Encode(decoded)
    /\ cpc' = IF Encode(decoded) = Panic THEN "panic" ELSE "back"
    /\ UNCHANGED << decoded, svcVars, valVars >>

InverseNext == DoDecodeCode \/ DoEncodeBack

SpecInverse == InverseInit /\ [][InverseNext]_vars

(***************************************************************************)
(* Properties.                                                             *)
(***************************************************************************)
\* The base-62 numeral of n, most significant digit first.
RECURSIVE Numeral(_)
Numeral(n) ==
    IF n < base
    THEN << base62Chars[n + 1] >>
    ELSE Numeral(n \div base) \o << base62Chars[(n % base) + 1] >>

\* C1: for every identifier n >= 0, Encode returns a string and Decode of
\* that string gives n back.
C1_RoundTrip ==
    cpc \in { "panic", "done" } => (cpc = "done" /\ decoded = number)

\* C2: for every n >= 0, Encode(n) is the base-62 numeral of n, most
\* significant digit first; Encode(0) = "0", Encode(62) = "10",
\* Encode(1000) = "G8", Encode(123456789) = "8M0kX".
C2_EncodeIsNumeral ==
    cpc # "Encode" =>
        /\ encoded = Numeral(number)
        /\ number = 0 => encoded = << "0" >>
        /\ number = 62 => encoded = << "1", "0" >>
        /\ number = 1000 => encoded = << "G", "8" >>
        /\ number = 123456789 => encoded = << "8", "M", "0", "k", "X" >>

\* The answers of the store to the inserts of request p, in order.
Inserts(p) == SelectSeq(proc[p].calls, LAMBDA c : c.fn = "pgRepo.Create")
ConflictsFirst(p, k) ==
    /\ Len(Inserts(p)) >= k
    /\ \A i \in 1..k : Inserts(p)[i].err = ErrAlreadyExists

\* C3: with the retry budget of 3, k conflicts (k = 1 or 2) followed by an
\* accepted insert make CreateShortURL succeed with the code of the accepted
\* attempt, the encoding of the identifier drawn for it; 3 consecutive
\* conflicts make it fail with the max-retries error.
C3_RetryBudget ==
    \A p \in Procs :
        (proc[p].op = "CreateShortURL" /\ proc[p].pc = "done") =>
            /\ \A k \in 1..(maxRetries - 1) :
                 ( /\ ConflictsFirst(p, k)
                   /\ Len(Inserts(p)) = k + 1
                   /\ Inserts(p)[k + 1].err = "" ) =>
                     /\ proc[p].err = ""
                     /\ proc[p].val.ShortCode = Encode(proc[p].id)
                     /\ \E r \in urls : /\ r.ShortCode = proc[p].val.ShortCode
                                        /\ r.ID = proc[p].id
                                        /\ r.LongURL = proc[p].val.LongURL
            /\ ConflictsFirst(p, maxRetries) =>
                 /\ proc[p].err = ErrMaxRetries
                 /\ Len(Inserts(p)) = maxRetries

\* C3 witness: a creation that succeeded on its third insert.
C3_Witness ==
    \E p \in Procs :
        /\ proc[p].op = "CreateShortURL" /\ proc[p].pc = "done"
        /\ proc[p].err = ""
        /\ ConflictsFirst(p, 2)
        /\ Len(Inserts(p)) = 3

C4_RowsUnique ==
    \A r1, r2 \in urls : r1.ShortCode = r2.ShortCode => r1 = r2

\* C4: no two rows of the store have the same short code, whatever the
\* identifier source returns and however creations interleave, and a
\* creation never returns a code an earlier creation returned.
C4_UniqueCodes ==
    /\ []C4_RowsUnique
    /\ [][\A p \in Procs :
            (proc[p].pc = "Set" /\ proc'[p].pc = "done") =>
                \A e \in created :
                    e.response.ShortCode # proc'[p].val.ShortCode]_vars

\* C4 witness: two creations have succeeded, one of them after the store
\* refused a repeated identifier.
C4_Witness ==
    /\ Cardinality(urls) = 2
    /\ Cardinality(created) = 2
    /\ \E p \in Procs :
         /\ proc[p].op = "CreateShortURL" /\ proc[p].pc = "done" /\ proc[p].err = ""
         /\ ConflictsFirst(p, 1)

NoFailure(p) ==
    \A i \in 1..Len(proc[p].calls) : proc[p].calls[i].err # ErrOther

C6_ClicksReachResolved ==
    (steady /\ RunningTasks = 0 /\ InFlight = 0) =>
        \A r \in urls : r.Clicks = resolved[r.ShortCode]

\* C7: when the pool is full as GetLongURL schedules its increment, no task
\* is started and nothing is queued, and GetLongURL returns the long URL
\* with no error.
C7_DropWhenFull ==
    [][\A p \in Procs :
         ( /\ proc[p].op = "GetLongURL"
           /\ proc[p].pc \in { "Get", "GetSet" }
           /\ proc'[p].pc = "done"
           /\ clickWorkers = ClickWorkersCap ) =>
             /\ tasks' = tasks
             /\ clickWorkers' = clickWorkers
             /\ urls' = urls
             /\ proc'[p].err = ""
             /\ proc'[p].val = proc'[p].url.LongURL
             /\ HasRow(proc[p].arg) /\ proc'[p].val = Row(proc[p].arg).LongURL]_vars

\* C7 witness: a GetLongURL has returned its long URL after its increment
\* was dropped.
C7_Witness ==
    \E p \in Procs :
        /\ proc[p].op = "GetLongURL" /\ proc[p].pc = "done" /\ proc[p].err = ""
        /\ clickWorkers = ClickWorkersCap
        /\ proc[p].calls[Len(proc[p].calls)] =
               Call("incrementClicksAsync", "click workers limit reached, skipping increment")

\* C8: a valid code missing from the cache and present in the store is
\* resolved to the store's long URL and, when the cache accepts the write,
\* the cache then holds an entry for the code, which the next lookup hits.
C8_MissFillsCache ==
    [][\A p \in Procs :
         /\ ( /\ proc[p].pc = "GetByShortCode" /\ proc[p].op = "GetLongURL"
              /\ proc'[p] # proc[p]
              /\ HasRow(proc[p].arg)
              /\ proc'[p].calls[Len(proc'[p].calls)].err # ErrOther ) =>
                /\ proc'[p].pc = "GetSet"
                /\ proc'[p].url = Row(proc[p].arg)
         /\ (proc[p].pc = "GetSet" /\ proc'[p].pc = "done") =>
                /\ proc'[p].err = ""
                /\ proc'[p].val = Row(proc[p].arg).LongURL
                /\ (\E i \in 1..Len(proc'[p].calls) :
                        proc'[p].calls[i] = Call("redisRepo.Set", "")) =>
                     \E e \in cache' : /\ e.ShortCode = proc[p].arg
                                       /\ e.LongURL = proc'[p].val]_vars

\* C8 witness: a GetLongURL returned after a miss, a store hit and an
\* accepted cache write.
C8_Witness ==
    \E p \in Procs :
        /\ proc[p].op = "GetLongURL" /\ proc[p].pc = "done" /\ proc[p].err = ""
        /\ Len(proc[p].calls) = 4
        /\ proc[p].calls[1] = Call("redisRepo.Get", ErrNotFound)
        /\ proc[p].calls[2] = Call("pgRepo.GetByShortCode", "")
        /\ proc[p].calls[3] = Call("redisRepo.Set", "")
        /\ \E e \in cache : e.ShortCode = proc[p].arg

\* C9: within one GetLongURL the cache lookup comes before any store
\* lookup, and after a cache hit the call does not read the store: the
\* cached long URL is returned.
C9_CacheFirst ==
    \A p \in Procs :
        proc[p].op = "GetLongURL" =>
            LET calls == proc[p].calls
                StoreRead(i) == calls[i].fn = "pgRepo.GetByShortCode"
                CacheRead(i) == calls[i].fn = "redisRepo.Get"
            IN  /\ \A i \in 1..Len(calls) :
                     StoreRead(i) => \E j \in 1..(i - 1) : CacheRead(j)
                /\ (\E j \in 1..Len(calls) : CacheRead(j) /\ calls[j].err = "") =>
                     /\ \A i \in 1..Len(calls) : ~StoreRead(i)
                     /\ proc[p].pc = "done"
                     /\ proc[p].err = ""
                     /\ proc[p].val = proc[p].url.LongURL

\* C9 witness: a GetLongURL answered from the cache while the store has the row.
C9_Witness ==
    \E p \in Procs :
        /\ proc[p].op = "GetLongURL" /\ proc[p].pc = "done" /\ proc[p].err = ""
        /\ proc[p].calls[1] = Call("redisRepo.Get", "")
        /\ HasRow(proc[p].arg)

\* C10: GetLongURL for a valid code in neither the cache nor the store
\* fails with "short URL not found", not with the error of a store
\* failure, and schedules no click increment.
C10_NotFound ==
    [][\A p \in Procs :
         ( /\ proc[p].op = "GetLongURL"
           /\ proc[p].pc = "GetByShortCode"
           /\ proc'[p] # proc[p]
           /\ ~HasRow(proc[p].arg) ) =>
             LET answer == proc'[p].calls[Len(proc'[p].calls)]
             IN  /\ proc'[p].pc = "done"
                 /\ answer.err = ErrNotFound =>
                      /\ proc'[p].err = ErrShortNotFound
                      /\ proc'[p].err # ErrRetrieving
                 /\ answer.err = ErrOther => proc'[p].err = ErrRetrieving
                 /\ \A i \in 1..Len(proc'[p].calls) :
                        proc'[p].calls[i].fn # "incrementClicksAsync"
                 /\ UNCHANGED << tasks, clickWorkers, urls, cache >>]_vars

\* C10 witness: a GetLongURL ended with the not-found error.
C10_Witness ==
    \E p \in Procs :
        /\ proc[p].op = "GetLongURL" /\ proc[p].pc = "done"
        /\ proc[p].err = ErrShortNotFound
        /\ ~HasRow(proc[p].arg)
        /\ ~(\E e \in cache : e.ShortCode = proc[p].arg)

\* The last call a request made.
LastCall(q) == q.calls[Len(q.calls)]
Made(q, fn) == \E i \in 1..Len(q.calls) : q.calls[i].fn = fn

\* C11: when the cache misses and the store lookup fails with an error other
\* than not-found, GetLongURL fails with "error retrieving long URL", which
\* is not the store's error text, writes nothing to the cache and schedules
\* no click increment.
C11_StoreErrorGeneric ==
    [][\A p \in Procs :
         ( /\ proc[p].op = "GetLongURL"
           /\ proc[p].pc = "GetByShortCode"
           /\ proc'[p] # proc[p]
           /\ LastCall(proc'[p]).err \notin { "", ErrNotFound } ) =>
             /\ proc'[p].pc = "done"
             /\ proc'[p].err = "error retrieving long URL"
             /\ proc'[p].err # LastCall(proc'[p]).err
             /\ proc'[p].val = << >>
             /\ ~Made(proc'[p], "redisRepo.Set")
             /\ ~Made(proc'[p], "incrementClicksAsync")
             /\ UNCHANGED << cache, tasks, clickWorkers, urls, resolved >>]_vars

\* C11 witness: a GetLongURL for a code the store holds ended with the
\* generic error after a miss and a failed store lookup.
C11_Witness ==
    \E p \in Procs :
        /\ proc[p].op = "GetLongURL" /\ proc[p].pc = "done"
        /\ proc[p].err = ErrRetrieving
        /\ proc[p].calls = << Call("redisRepo.Get", ErrNotFound),
                              Call("pgRepo.GetByShortCode", ErrOther) >>
        /\ HasRow(proc[p].arg)

\* C12: CreateShortURL on an input whose normalized form is not a valid URL
\* fails with the invalid-URL error at once: no identifier is drawn, nothing
\* is inserted, nothing is written to the cache, and there is no retry.
C12_InvalidURLNoEffect ==
    [][\A p \in Procs :
         ( /\ proc[p].pc = "idle"
           /\ proc'[p].op = "CreateShortURL"
           /\ ~IsValidURL(NormalizeURL(proc'[p].arg)) ) =>
             /\ proc'[p].pc = "done"
             /\ proc'[p].err = ErrInvalidURL
             /\ proc'[p].val = << >>
             /\ proc'[p].calls = << >>
             /\ proc'[p].attempt = 0
             /\ UNCHANGED << urls, cache, created >>]_vars

\* C12 witness: a CreateShortURL ended with the invalid-URL error while the
\* store holds a row.
C12_Witness ==
    \E p \in Procs :
        /\ proc[p].op = "CreateShortURL" /\ proc[p].pc = "done"
        /\ proc[p].err = ErrInvalidURL
        /\ ~IsValidURL(NormalizeURL(proc[p].arg))
        /\ urls # {}

\* C13: GetLongURL and GetURLStats called with a short code the validator
\* rejects return the invalid-format error without any call to the cache or
\* to the store and without scheduling a click increment.
C13_InvalidCodeNoAccess ==
    [][\A p \in Procs :
         ( /\ proc[p].pc = "idle"
           /\ proc'[p].op \in { "GetLongURL", "GetURLStats" }
           /\ ~IsValidShortCode(proc'[p].arg) ) =>
             /\ proc'[p].pc = "done"
             /\ proc'[p].err = ErrInvalidFormat
             /\ proc'[p].val = << >>
             /\ proc'[p].calls = << >>
             /\ UNCHANGED << urls, cache, tasks, clickWorkers, resolved >>]_vars

\* C13 witness: a GetURLStats with a rejected code ended with the
\* invalid-format error while the store and the cache hold entries.
C13_Witness ==
    \E p \in Procs :
        /\ proc[p].op = "GetURLStats" /\ proc[p].pc = "done"
        /\ proc[p].err = ErrInvalidFormat
        /\ ~IsValidShortCode(proc[p].arg)
        /\ urls # {} /\ cache # {}

\* C14: a failed cache write never fails the caller: CreateShortURL after a
\* successful insert and GetLongURL after a successful store lookup return
\* their normal result also when Set returned an error.
C14_CacheWriteNonFatal ==
    \A p \in Procs :
        ( /\ proc[p].pc = "done"
          /\ Len(proc[p].calls) > 0
          /\ \E i \in 1..Len(proc[p].calls) :
                 proc[p].calls[i] = Call("redisRepo.Set", ErrOther) ) =>
            /\ proc[p].err = ""
            /\ proc[p].op = "CreateShortURL" =>
                 /\ proc[p].val = CreateURLResponse(proc[p].shortCode, proc[p].longURL)
                 /\ \E r \in urls : /\ r.ShortCode = proc[p].val.ShortCode
                                    /\ r.LongURL = proc[p].val.LongURL
            /\ proc[p].op = "GetLongURL" =>
                 /\ HasRow(proc[p].arg)
                 /\ proc[p].val = Row(proc[p].arg).LongURL

\* C14 witness: a creation succeeded although its cache write failed, and
\* the cache holds nothing for its code.
C14_Witness ==
    \E p \in Procs :
        /\ proc[p].op = "CreateShortURL" /\ proc[p].pc = "done" /\ proc[p].err = ""
        /\ LastCall(proc[p]) = Call("redisRepo.Set", ErrOther)
        /\ ~(\E e \in cache : e.ShortCode = proc[p].shortCode)

\* C15: every cache Get failure in GetLongURL, not-found or not, is a miss:
\* the call goes on to the store and the store alone decides its result, so
\* a cache outage does not fail GetLongURL for a code the store holds.
C15_CacheFailureIsMiss ==
    \A p \in Procs :
        ( /\ proc[p].op = "GetLongURL"
          /\ Len(proc[p].calls) >= 1
          /\ proc[p].calls[1].err # "" ) =>
            /\ proc[p].calls[1].fn = "redisRepo.Get"
            /\ proc[p].pc # "done" => proc[p].pc \in { "GetByShortCode", "GetSet" }
            /\ proc[p].pc = "done" =>
                 /\ Len(proc[p].calls) >= 2
                 /\ proc[p].calls[2].fn = "pgRepo.GetByShortCode"
                 /\ proc[p].calls[2].err = "" =>
                      /\ proc[p].err = ""
                      /\ proc[p].val = proc[p].url.LongURL
                      /\ HasRow(proc[p].arg) /\ proc[p].val = Row(proc[p].arg).LongURL
                 /\ proc[p].calls[2].err = ErrNotFound => proc[p].err = ErrShortNotFound
                 /\ proc[p].calls[2].err = ErrOther => proc[p].err = ErrRetrieving

\* C15 witness: with the cache down, a GetLongURL returned the long URL of
\* a code the store holds.
C15_Witness ==
    \E p \in Procs :
        /\ proc[p].op = "GetLongURL" /\ proc[p].pc = "done" /\ proc[p].err = ""
        /\ proc[p].calls[1] = Call("redisRepo.Get", ErrOther)
        /\ HasRow(proc[p].arg)

\* C16: GetURLStats never reads or writes the cache and never schedules a
\* click increment: for a valid code it makes one store read and nothing
\* else, also when the cache holds the code, and the count it returns is
\* the store's.
C16_StatsBypassesCache ==
    /\ [](\A p \in Procs :
            proc[p].op = "GetURLStats" =>
                /\ Len(proc[p].calls) <= 1
                /\ \A i \in 1..Len(proc[p].calls) :
                       proc[p].calls[i].fn = "pgRepo.GetByShortCode"
                /\ (proc[p].pc = "done" /\ IsValidShortCode(proc[p].arg)) =>
                       Len(proc[p].calls) = 1)
    /\ [][\A p \in Procs :
            (proc'[p].op = "GetURLStats" /\ proc'[p] # proc[p]) =>
                /\ UNCHANGED << cache, tasks, clickWorkers, urls, resolved >>
                /\ (proc'[p].pc = "done" /\ proc'[p].err = "") =>
                       /\ HasRow(proc'[p].arg)
                       /\ proc'[p].val.Clicks = Row(proc'[p].arg).Clicks]_vars

\* C16 witness: GetURLStats returned the store's count while the cache
\* holds an entry for the code with another count.
C16_Witness ==
    \E p \in Procs :
        /\ proc[p].op = "GetURLStats" /\ proc[p].pc = "done" /\ proc[p].err = ""
        /\ \E e \in cache : /\ e.ShortCode = proc[p].arg
                            /\ e.Clicks # proc[p].val.Clicks

\* C17: GetURLStats for a valid code returns the short code, long URL, click
\* count and creation time of the store's record for the code; it fails
\* with the not-found error when the store has no record for the code and
\* with the generic stats error on any other store failure.
C17_StatsResult ==
    [][\A p \in Procs :
         ( /\ proc[p].op = "GetURLStats"
           /\ proc[p].pc = "StatsGetByShortCode"
           /\ proc'[p] # proc[p] ) =>
             LET answer == LastCall(proc'[p])
             IN  /\ proc'[p].pc = "done"
                 /\ answer.fn = "pgRepo.GetByShortCode"
                 /\ answer.err = "" =>
                      /\ HasRow(proc[p].arg)
                      /\ proc'[p].err = ""
                      /\ proc'[p].val =
                            [ShortCode |-> proc[p].arg,
                             LongURL   |-> Row(proc[p].arg).LongURL,
                             Clicks    |-> Row(proc[p].arg).Clicks,
                             CreatedAt |-> Row(proc[p].arg).CreatedAt]
                 /\ answer.err = ErrNotFound =>
                      /\ ~HasRow(proc[p].arg)
                      /\ proc'[p].err = "short URL not found"
                      /\ proc'[p].val = << >>
                 /\ answer.err \notin { "", ErrNotFound } =>
                      /\ proc'[p].err = "error retrieving URL stats"
                      /\ proc'[p].val = << >>]_vars

\* C17 witness: GetURLStats returned the record of a code that has been
\* clicked, with another record in the store.
C17_Witness ==
    \E p \in Procs :
        /\ proc[p].op = "GetURLStats" /\ proc[p].pc = "done" /\ proc[p].err = ""
        /\ proc[p].val.Clicks >= 1
        /\ proc[p].val = StatsResponse(Row(proc[p].arg))
        /\ Cardinality(urls) = 2

\* C18: for every code the store's click count is 0 when the record is
\* created, never decreases, and is at most the number of GetLongURL calls
\* for the code that found its long URL so far; no step of a CreateShortURL,
\* of a GetURLStats or of a failed GetLongURL raises a count.
C18_ClicksBounded ==
    /\ [](\A r \in urls : r.Clicks >= 0 /\ r.Clicks <= resolved[r.ShortCode])
    /\ [][/\ \A r \in urls : \E q \in urls' : /\ q.ShortCode = r.ShortCode
                                              /\ q.Clicks >= r.Clicks
          /\ \A q \in urls' : ~HasRow(q.ShortCode) => q.Clicks = 0
          /\ (\E p \in Procs : proc'[p] # proc[p]) =>
                 \A r \in urls : r \in urls']_vars

\* C18 witness: a code resolved three times whose count is two.
C18_Witness ==
    \E r \in urls : r.Clicks = 2 /\ resolved[r.ShortCode] = 3

\* C19: a successful CreateShortURL returns the short code that was
\* persisted, the short URL made of the base URL, "/" and that code, and
\* the normalized long URL (trimmed, https:// prepended when the input had
\* no scheme), not the raw input.
C19_CreateResponse ==
    \A p \in Procs :
        (proc[p].op = "CreateShortURL" /\ proc[p].pc = "done" /\ proc[p].err = "") =>
            /\ \E r \in urls : /\ r.ID = proc[p].id
                               /\ r.ShortCode = proc[p].val.ShortCode
                               /\ r.LongURL = proc[p].val.LongURL
            /\ proc[p].val.ShortURL = baseURL \o << "/" >> \o proc[p].val.ShortCode
            /\ proc[p].val.LongURL = NormalizeURL(proc[p].arg)
            /\ proc[p].arg = << Blank, "b.com", Blank >> =>
                   proc[p].val.LongURL = << "https://", "b.com" >>
            /\ proc[p].arg = << "https://", "a.com" >> =>
                   proc[p].val.LongURL = << "https://", "a.com" >>

\* C19 witness: a creation from an input with blanks and no scheme succeeded.
C19_Witness ==
    \E p \in Procs :
        /\ proc[p].op = "CreateShortURL" /\ proc[p].pc = "done" /\ proc[p].err = ""
        /\ proc[p].arg = << Blank, "b.com", Blank >>
        /\ proc[p].val.LongURL # proc[p].arg

\* C20: within one CreateShortURL attempt the identifier is obtained before
\* the insert is attempted, and the cache is written only after that
\* attempt's insert has succeeded.
C20_CreateOrder ==
    /\ [](\A p \in Procs :
            proc[p].op = "CreateShortURL" =>
                \A i \in 1..Len(proc[p].calls) :
                    /\ proc[p].calls[i].fn = "pgRepo.Create" =>
                           /\ i > 1
                           /\ proc[p].calls[i - 1] = Call("pgRepo.GetNextID", "")
                    /\ proc[p].calls[i].fn = "redisRepo.Set" =>
                           /\ i > 1
                           /\ proc[p].calls[i - 1] = Call("pgRepo.Create", ""))
    /\ [][\A p \in Procs :
            (proc[p].op = "CreateShortURL" /\ proc'[p] # proc[p] /\ cache' # cache) =>
                /\ LastCall(proc[p]) = Call("pgRepo.Create", "")
                /\ proc[p].url \in urls
                /\ cache' = Set(proc[p].url.ShortCode, proc[p].url)]_vars

\* C20 witness: a creation whose first insert was refused wrote the cache
\* after its second insert.
C20_Witness ==
    \E p \in Procs :
        /\ proc[p].op = "CreateShortURL" /\ proc[p].pc = "done"
        /\ proc[p].calls = << Call("pgRepo.GetNextID", ""),
                              Call("pgRepo.Create", ErrAlreadyExists),
                              Call("pgRepo.GetNextID", ""),
                              Call("pgRepo.Create", ""),
                              Call("redisRepo.Set", "") >>
        /\ proc[p].url \in cache

\* The characters [0-9A-Za-z].
Alphanumeric ==
    { "0", "1", "2", "3", "4", "5", "6", "7", "8", "9" }
      \cup { "A", "B", "C", "D", "E", "F", "G", "H", "I", "J", "K", "L", "M",
             "N", "O", "P", "Q", "R", "S", "T", "U", "V", "W", "X", "Y", "Z" }
      \cup { "a", "b", "c", "d", "e", "f", "g", "h", "i", "j", "k", "l", "m",
             "n", "o", "p", "q", "r", "s", "t", "u", "v", "w", "x", "y", "z" }
AllAlphanumeric(s) == \A k \in 1..Len(s) : s[k] \in Alphanumeric

\* C22: Decode returns -1 for every text holding a character outside
\* [0-9A-Za-z], and a value >= 0 for every text of 1 to 10 characters of the
\* alphabet, so that "0" (value 0) and an invalid text are told apart.
C22_DecodeMarker ==
    cpc = "done" =>
        /\ ~AllAlphanumeric(encoded) => decoded = -1
        /\ (AllAlphanumeric(encoded) /\ Len(encoded) \in 1..10) => decoded >= 0
        /\ decoded = -1 => ~AllAlphanumeric(encoded)

\* C22 witness: a text that starts with the digit of value 0 and goes on
\* with a character outside the alphabet has been decoded to -1.
C22_Witness ==
    /\ cpc = "done"
    /\ decoded = -1
    /\ Len(encoded) = 2
    /\ encoded[1] = "0"

\* C24: IsValidShortCode(s) is true exactly when s has 1 to 10 characters,
\* all in [0-9A-Za-z]; false for the empty text, for 11 characters or more
\* and for a text holding any other character, leading or trailing too.
C24_ShortCodeValidity ==
    vpc = "IsValidShortCode" =>
        /\ result = (Len(text) >= 1 /\ Len(text) <= 10 /\ AllAlphanumeric(text))
        /\ text = << >> => result = FALSE
        /\ Len(text) >= 11 => result = FALSE
        /\ (\E k \in 1..Len(text) :
                text[k] \in { " ", "@", "_", "-", ".", "\n", "U+00F1" }) => result = FALSE

\* C24 witness: a text of ten characters whose last one is a newline has
\* been rejected.
C24_Witness ==
    /\ vpc = "IsValidShortCode"
    /\ result = FALSE
    /\ Len(text) = 10
    /\ text[10] = "\n"
    /\ \A k \in 1..9 : text[k] \in Alphanumeric

\* C25: IsValidURL(u) is true exactly when u is not empty, starts with
\* http:// or https:// and parses to a URL with a non-empty host: a host
\* name, localhost with a port and an IP address are accepted after either
\* scheme; the empty text, a host without scheme, an ftp:// URL and
\* https:// without host are rejected.
C25_URLValidity ==
    vpc = "IsValidURL" =>
        /\ result = ( /\ text # << >>
                      /\ text[1] \in { "http://", "https://" }
                      /\ ~Parse(text).err
                      /\ Parse(text).Host # << >> )
        /\ ( /\ Len(text) = 2
             /\ text[1] \in { "http://", "https://" }
             /\ text[2] \in { "a.com", "localhost:8080", "192.168.1.1" } ) => result = TRUE
        /\ text = << >> => result = FALSE
        /\ text = << "a.com" >> => result = FALSE
        /\ (text # << >> /\ text[1] = "ftp://") => result = FALSE
        /\ text = << "https://" >> => result = FALSE

\* C25 witness: localhost with a port after http:// has been accepted.
C25_Witness ==
    /\ vpc = "IsValidURL"
    /\ text = << "http://", "localhost:8080" >>
    /\ result = TRUE

C23_EncodeInjective ==
    cpc # "Encode" =>
        /\ encoded # Panic
        /\ \A other \in 0..MaxNumber :
               (other < number) => (Encode(other) # Panic /\ Encode(other) # encoded)

\* C28: the slot taken for an increment task is given back when the task
\* ends: the occupied slots are as many as the tasks still running, and a
\* GetLongURL that schedules its increment while no task runs is admitted.
C28_SlotsEqualRunning ==
    /\ clickWorkers = RunningTasks
    /\ RunningTasks = 0 => CanSend

Draws(p) == SelectSeq(proc[p].calls, LAMBDA c : c.fn = "pgRepo.GetNextID")

\* C30: a CreateShortURL call makes at most 3 identifier draws and at most 3
\* insert attempts whatever the store answers, and every step it takes ends
\* it or adds one call, so it terminates; each insert, a retry too, sends
\* the identifier drawn just before it and the encoding of that identifier.
C30_BoundedAttempts ==
    /\ [](\A p \in Procs :
            proc[p].op = "CreateShortURL" =>
                /\ Len(Draws(p)) <= 3
                /\ Len(Inserts(p)) <= 3
                /\ Len(proc[p].calls) <= 7
                /\ proc[p].pc = "GetNextID" => Len(Draws(p)) = Len(Inserts(p))
                /\ proc[p].pc = "Create" =>
                       /\ Len(Draws(p)) = Len(Inserts(p)) + 1
                       /\ LastCall(proc[p]) = Call("pgRepo.GetNextID", "")
                       /\ proc[p].shortCode = Encode(proc[p].id))
    /\ [][\A p \in Procs :
            ( /\ proc[p].op = "CreateShortURL"
              /\ proc[p].pc \in { "GetNextID", "Create", "Set" }
              /\ proc'[p] # proc[p] ) =>
                \/ proc'[p].pc \in { "done", "panic" }
                \/ Len(proc'[p].calls) = Len(proc[p].calls) + 1]_vars
    /\ [][\A p \in Procs :
            ( /\ proc[p].pc = "Create"
              /\ proc'[p] # proc[p]
              /\ LastCall(proc'[p]) = Call("pgRepo.Create", ErrAlreadyExists) ) =>
                proc'[p].pc \in { "GetNextID", "done" }]_vars

\* C30 witness: a creation ended with the max-retries error after three
\* draws and three refused inserts.
C30_Witness ==
    \E p \in Procs :
        /\ proc[p].op = "CreateShortURL" /\ proc[p].pc = "done"
        /\ proc[p].err = ErrMaxRetries
        /\ Len(Draws(p)) = 3
        /\ Len(Inserts(p)) = 3

\* C27: the Redirect handler answers 302 with Location set to the long URL
\* when the service resolved the code, and 404 with the error text
\* "Short URL not found" for every error of the service: not found, invalid
\* short-code format and internal error alike.
C27_RedirectAnswers ==
    [][\A p \in Procs :
         ( /\ proc[p].op = "GetLongURL"
           /\ proc[p].pc = "done"
           /\ proc'[p].pc = "answered" ) =>
             LET answer == proc'[p].val
             IN  /\ proc[p].err = "" =>
                      /\ answer.Status = 302
                      /\ answer.Location = proc[p].val
                      /\ answer.Error = ""
                 /\ proc[p].err \in { ErrShortNotFound, ErrInvalidFormat, ErrRetrieving } =>
                      /\ answer.Status = 404
                      /\ answer.Error = "Short URL not found"
                      /\ answer.Location = << >>
                 /\ proc[p].err \in { "", ErrShortNotFound, ErrInvalidFormat,
                                      ErrRetrieving }]_vars

\* C27 witness: the handler has answered 404 to a GetLongURL that failed
\* with the internal error.
C27_Witness ==
    \E p \in Procs :
        /\ proc[p].pc = "answered" /\ proc[p].op = "GetLongURL"
        /\ proc[p].err = ErrRetrieving
        /\ proc[p].val.Status = 404
        /\ proc[p].val.Error = "Short URL not found"

\* C21: with identifiers that are never issued twice, concurrent
\* CreateShortURL calls for valid URLs all succeed: none meets a collision,
\* the max-retries error or an internal error, none is cut short, and the
\* store holds one record per creation that was given an identifier.
C21_FreshIdsAllSucceed ==
    /\ \A p \in Procs :
         proc[p].op = "CreateShortURL" =>
             /\ proc[p].pc # "panic"
             /\ proc[p].err = ""
             /\ \A i \in 1..Len(proc[p].calls) : proc[p].calls[i].err = ""
             /\ Len(Draws(p)) <= 1
    /\ \E start \in SeqStarts :
         Cardinality(urls)
           + Cardinality({ p \in Procs : proc[p].pc = "Create" }) = urls_id_seq - start

\* C31: when the identifier source fails, or the insert fails with an error
\* other than the uniqueness conflict, CreateShortURL ends in that step with
\* an internal error ("error generating short code", "error creating short
\* URL") that is not the store's error text, with no result, no further
\* attempt, no cache write and no change to the rows or the cache.
C31_StoreFailureEndsCreate ==
    [][\A p \in Procs :
         ( /\ proc[p].op = "CreateShortURL"
           /\ proc[p].pc \in { "GetNextID", "Create" }
           /\ proc'[p] # proc[p]
           /\ LastCall(proc'[p]).err \notin { "", ErrAlreadyExists } ) =>
             /\ proc'[p].pc = "done"
             /\ proc'[p].err =
                    IF proc[p].pc = "GetNextID" THEN "error generating short code"
                                                ELSE "error creating short URL"
             /\ proc'[p].err # LastCall(proc'[p]).err
             /\ proc'[p].val = << >>
             /\ proc'[p].attempt = proc[p].attempt
             /\ Len(proc'[p].calls) = Len(proc[p].calls) + 1
             /\ ~Made(proc'[p], "redisRepo.Set")
             /\ UNCHANGED << urls, cache, created >>]_vars

\* C31 witness: a CreateShortURL ended with the internal error after its
\* insert failed with the store's own error, on its second attempt.
C31_Witness ==
    \E p \in Procs :
        /\ proc[p].op = "CreateShortURL" /\ proc[p].pc = "done"
        /\ proc[p].err = ErrCreating
        /\ proc[p].attempt = 1
        /\ LastCall(proc[p]) = Call("pgRepo.Create", ErrOther)
        /\ urls # {}

C33_IncrementByOne ==
    /\ [](\A r \in urls : r.Clicks = completed[r.ShortCode])
    /\ [](\A c \in RowCodes :
             ~HasRow(c) => /\ IncrementClicksCounter(c) = urls
                           /\ IncrementClicksCounterError(c) = "url not found")
    /\ [][\A c \in RowCodes :
             tasks'[c] < tasks[c] =>
               /\ proc' = proc
               /\ tasks'[c] = tasks[c] - 1
               /\ IF completed'[c] = completed[c] + 1
                  THEN /\ HasRow(c)
                       /\ urls' = (urls \ { Row(c) })
                                     \cup { [Row(c) EXCEPT !.Clicks = @ + 1] }
                       /\ Cardinality(urls') = Cardinality(urls)
                  ELSE /\ urls' = urls
                       /\ completed' = completed]_vars

\* C33 witness: two tasks for one code have applied their updates, its
\* count is 2, and the record of another code is at 0.
C33_Witness ==
    \E r \in urls :
        /\ r.Clicks = 2 /\ completed[r.ShortCode] = 2
        /\ \E q \in urls : q.ShortCode # r.ShortCode /\ q.Clicks = 0

\* C34: a GetLongURL in progress returns, also in the runs where the
\* increment task it scheduled never ends; the step that schedules the
\* increment is the step that returns the long URL with no error; and a
\* task that ends without its update applied changes no request.
C34_ReturnsWithoutWaiting ==
    /\ \A p \in Procs :
          (proc[p].op = "GetLongURL" /\ proc[p].pc \in { "Get", "GetByShortCode", "GetSet" })
             ~> (proc[p].op = "GetLongURL" /\ proc[p].pc = "done")
    /\ [][\A p \in Procs :
             ( /\ proc[p].op = "GetLongURL"
               /\ proc'[p] # proc[p]
               /\ \E c \in RowCodes : tasks'[c] > tasks[c] ) =>
                 /\ proc'[p].pc = "done"
                 /\ proc'[p].err = ""
                 /\ proc'[p].val = Row(proc[p].arg).LongURL
                 /\ tasks'[proc[p].arg] > 0]_vars
    /\ [][\A c \in RowCodes :
             (tasks'[c] < tasks[c] /\ completed' = completed) => proc' = proc]_vars

\* C34 witness: the handler has answered a GetLongURL with the redirect
\* while the increment task of the call is running.
C34_Witness ==
    \E p \in Procs :
        /\ proc[p].op = "GetLongURL" /\ proc[p].pc = "answered"
        /\ proc[p].val.Status = 302
        /\ RunningTasks = 1 /\ resolved[<< "1" >>] = 1

\* C35: the increment task is not tied to the request that scheduled it: no
\* step of a request, its answer and its end included, ends a task or
\* changes what tasks have applied; a running task can apply its update
\* whatever the requests are doing; and a task ends only in a step of its
\* own, with its update applied or with a failure of its own store call.
C35_TaskOutlivesRequest ==
    /\ [](\A c \in RowCodes :
             tasks[c] > 0 =>
                ENABLED (IncrementTask(c, FALSE) /\ completed'[c] = completed[c] + 1))
    /\ [][/\ (\E p \in Procs : proc'[p] # proc[p]) =>
                 /\ \A c \in RowCodes : tasks'[c] >= tasks[c]
                 /\ completed' = completed
          /\ \A c \in RowCodes :
                 tasks'[c] < tasks[c] =>
                    /\ tasks'[c] = tasks[c] - 1
                    /\ proc' = proc
                    /\ \/ completed'[c] = completed[c] + 1 /\ urls' # urls
                       \/ completed' = completed /\ urls' = urls /\ ~steady']_vars

\* C35 witness: the request that scheduled an increment has ended (its
\* goroutine is idle again) and the task is still running, its update not
\* yet applied.
C35_Witness ==
    /\ \A p \in Procs : proc[p].pc = "idle"
    /\ \E c \in RowCodes :
           tasks[c] = 1 /\ resolved[c] = 1 /\ completed[c] = 0 /\ HasRow(c)

\* C36: Encode undoes Decode: for a code c over the alphabet,
\* Encode(Decode(c)) returns c.  Stated for the codes that do not begin
\* with "0" (and "0" itself), the ones a numeral can be.
C36_EncodeOfDecode ==
    (cpc \in { "back", "panic" } /\ (Len(text) = 1 \/ text[1] # "0")) =>
        encoded = text

\* C37: a record, once in the store, stays there with the identifier, short
\* code, long URL and creation time it was inserted with, whatever the
\* service and its tasks do afterwards; its click count is the only field
\* that changes, and no identifier or code ever names two records.
C37_RecordsKept ==
    /\ [](\A r, q \in urls : (r.ID = q.ID \/ r.ShortCode = q.ShortCode) => r = q)
    /\ [][\A r \in urls :
             \E q \in urls' :
                 /\ q.ID = r.ID
                 /\ q.ShortCode = r.ShortCode
                 /\ q.LongURL = r.LongURL
                 /\ q.CreatedAt = r.CreatedAt]_vars

\* C37 witness: two records are stored, the first has been counted twice,
\* and a creation has ended after colliding three times.
C37_Witness ==
    /\ Cardinality(urls) = 2
    /\ \E r \in urls : r.CreatedAt = 1 /\ r.Clicks = 2
    /\ \E p \in Procs :
           /\ proc[p].op = "CreateShortURL" /\ proc[p].pc = "done"
           /\ proc[p].err = ErrMaxRetries

\* C38: every cache entry is the snapshot of a record of the store: its
\* code has a record, and identifier, long URL and creation time are those
\* of that record; only the click count of the snapshot may be behind the
\* store's.  The cache holds at most one entry per code.
C38_CacheAgreesWithStore ==
    /\ \A e \in cache :
          \E r \in urls :
              /\ r.ShortCode = e.ShortCode
              /\ r.LongURL = e.LongURL
              /\ r.ID = e.ID
              /\ r.CreatedAt = e.CreatedAt
              /\ e.Clicks <= r.Clicks
    /\ \A e, f \in cache : e.ShortCode = f.ShortCode => e = f

\* C38 witness: the cache holds the entries of two codes, and the click
\* count of one is behind the store's.
C38_Witness ==
    /\ Cardinality(cache) = 2
    /\ \E e \in cache : \E r \in urls :
           r.ShortCode = e.ShortCode /\ e.Clicks < r.Clicks

\* A step of a CreateShortURL call of goroutine p.
CreateStep(p) ==
    /\ proc'[p] # proc[p]
    /\ proc'[p].op = "CreateShortURL"
    /\ proc'[p].pc # "answered"

\* C39: a CreateShortURL that ends in an error (or in a panic) has inserted
\* no record and written no cache entry: a call changes the rows only by
\* the insert the store accepted, after which it goes on to the cache write
\* and returns its result; it changes the cache only by that write; and a
\* step whose insert collided, or that ends the call in an error, leaves
\* rows, cache and created URLs as they were.
C39_FailedCreateNoEffect ==
    /\ [](\A p \in Procs :
             ( /\ proc[p].op = "CreateShortURL"
               /\ \/ proc[p].pc = "panic"
                  \/ proc[p].pc = "done" /\ proc[p].err # "" ) =>
                 \A i \in 1..Len(proc[p].calls) :
                     /\ proc[p].calls[i] # Call("pgRepo.Create", "")
                     /\ proc[p].calls[i].fn # "redisRepo.Set")
    /\ [][\A p \in Procs :
             CreateStep(p) =>
               /\ urls' # urls =>
                     /\ proc[p].pc = "Create" /\ proc'[p].pc = "Set"
                     /\ LastCall(proc'[p]) = Call("pgRepo.Create", "")
                     /\ \A r \in urls : r \in urls'
                     /\ Cardinality(urls') = Cardinality(urls) + 1
               /\ cache' # cache =>
                     /\ proc[p].pc = "Set" /\ proc'[p].pc = "done"
                     /\ proc'[p].err = ""
                     /\ LastCall(proc'[p]) = Call("redisRepo.Set", "")
               /\ ( \/ proc'[p].pc = "panic"
                    \/ proc'[p].pc = "done" /\ proc'[p].err # ""
                    \/ /\ proc[p].pc = "Create"
                       /\ LastCall(proc'[p]).err = ErrAlreadyExists ) =>
                     UNCHANGED << urls, cache, created >>]_vars

\* C39 witness: a creation has ended with the max-retries error after three
\* collisions with the one record of the store, which has been counted and
\* whose cache entry is in place.
C39_Witness ==
    \E p \in Procs :
        /\ proc[p].op = "CreateShortURL" /\ proc[p].pc = "done"
        /\ proc[p].err = ErrMaxRetries
        /\ Cardinality(urls) = 1
        /\ \E r \in urls :
               /\ r.Clicks = 1
               /\ r.LongURL # proc[p].longURL
               /\ \E e \in cache : e.ShortCode = r.ShortCode /\ e.LongURL = r.LongURL

\* C40: for every identifier, Encode returns a code of 1 to 10 characters
\* that IsValidShortCode accepts, the check that the insert and GetLongURL
\* apply to a code, so that the identifier can become a record that
\* resolves.
C40_EncodeGivesValidCode ==
    cpc \in { "Decode", "done", "panic" } =>
        /\ encoded # Panic
        /\ Len(encoded) >= MinShortCodeLength
        /\ Len(encoded) <= MaxShortCodeLength
        /\ IsValidShortCode(encoded)
        /\ Create(number, encoded, << "https://", "a.com" >>).err # ErrInvalidShortCode

====
